---- MODULE Spec2Model ----
(***************************************************************************)
(* A model of the Linux hardware monitor (main.py, system_monitor.py):     *)
(* the GPU capability prober and its TTL cache, the NVIDIA and AMD vendor  *)
(* adapters, the curses graph renderer, the rolling histories and the      *)
(* dashboard loops.                                                        *)
(*                                                                         *)
(* The environment (external tools, sysfs files, the terminal, the clock)  *)
(* is state the model chooses nondeterministically; the program's          *)
(* functions are operators over it, translated statement by statement.     *)
(* Python floats are exact rationals <<n, d>> in lowest terms.             *)
(***************************************************************************)
EXTENDS Integers, Sequences, FiniteSets, TLC

VARIABLES
    env,      \* the machine: external tools' behaviour and sysfs file contents
    now,      \* time.time(), in whole seconds
    mon,      \* the SystemMonitor object's attributes
    obs,      \* the last call made on the monitor: what it returned and probed
    first,    \* the time and the result of the monitor's first vendor detection
    scr,      \* the terminal: its size and the glyph in each cell
    dash      \* the dashboard: its position, histories and last samples

probeVars == <<env, now, mon, obs, first>>

(***************************************************************************)
(* Bounds of the model.                                                    *)
(***************************************************************************)
MaxCards == 2      \* device directories matched by /sys/class/drm/card*/device
MaxLines == 2      \* lines of lspci output
MaxAdapterCards == 1  \* device directories on the machines of the adapter runs
StartTime == 1000  \* time.time() when the program starts
MaxElapsed == 125  \* seconds of run time explored
MaxRows == 6       \* rows of the terminals of the renderer runs
MaxCols == 10      \* columns of the terminals of the renderer runs
MaxWidth == 3      \* width of the graphs of the renderer runs
MaxHeight == 3     \* height of the graphs of the renderer runs
MaxTicks == 2      \* iterations of a dashboard's loop
MaxPlotHeight == 8 \* height of the plot area in the runs of the plot loop
MaxData == 2       \* data points given to draw_graph in the renderer runs

(***************************************************************************)
(* Rationals: the values of Python floats.                                 *)
(***************************************************************************)
RECURSIVE GCD(_, _)
GCD(a, b) == IF b = 0 THEN a ELSE GCD(b, a % b)

Abs(n) == IF n < 0 THEN -n ELSE n

Rat(n, d) ==
    LET g == GCD(Abs(n), Abs(d))
        s == IF d < 0 THEN -1 ELSE 1
    IN  <<(s * n) \div g, (s * d) \div g>>

RatInt(n) == <<n, 1>>
RatDiv(a, b) == Rat(a[1] * b[2], a[2] * b[1])
RatMul(a, b) == Rat(a[1] * b[1], a[2] * b[2])
RatLess(a, b) == a[1] * b[2] < b[1] * a[2]
RatPos(a) == a[1] > 0

(***************************************************************************)
(* Python exceptions and the except clauses that catch them.               *)
(***************************************************************************)
NoExc == "none"

\* The classes an exception is an instance of (IOError is OSError).
Bases(exc) ==
    CASE exc = "FileNotFoundError"  -> {"FileNotFoundError", "IOError", "Exception"}
      [] exc = "PermissionError"    -> {"PermissionError", "IOError", "Exception"}
      [] exc = "IOError"            -> {"IOError", "Exception"}
      [] exc = "CalledProcessError" -> {"CalledProcessError", "SubprocessError", "Exception"}
      [] exc = "UnicodeDecodeError" -> {"UnicodeDecodeError", "ValueError", "Exception"}
      [] exc = "ValueError"         -> {"ValueError", "Exception"}
      [] exc = "AttributeError"     -> {"AttributeError", "Exception"}
      [] exc = "KeyError"           -> {"KeyError", "LookupError", "Exception"}
      [] exc = "curses.error"       -> {"curses.error", "Exception"}
      [] OTHER                      -> {}

\* except (classes): does the clause catch exc?
Caught(exc, classes) == Bases(exc) \cap classes # {}

\* What subprocess.check_output raises for each behaviour of an external tool.
ToolExc(kind) ==
    CASE kind = "ok"                -> NoExc
      [] kind = "not_found"         -> "FileNotFoundError"
      [] kind = "permission_denied" -> "PermissionError"
      [] kind = "nonzero_exit"      -> "CalledProcessError"
      [] kind = "undecodable"       -> "UnicodeDecodeError"

\* What open()/read() of a sysfs file raises for each state of the file.
FileExc(content) ==
    CASE content = "unreadable"  -> "PermissionError"
      [] content = "undecodable" -> "UnicodeDecodeError"
      [] OTHER                   -> NoExc

\* str.strip() on the file contents and tool outputs of the model.
Strip(s) ==
    CASE s = "0x1002\n" -> "0x1002"
      [] s = "0x10de\n" -> "0x10de"
      [] s = "45000\n"  -> "45000"
      [] s = "45500\n"  -> "45500"
      [] s = "37\n"     -> "37"
      [] s = " 62"      -> "62"
      [] OTHER          -> s

(***************************************************************************)
(* The machine.                                                            *)
(***************************************************************************)
None == "None"

CardPath(i) ==
    CASE i = 1 -> "/sys/class/drm/card0/device"
      [] i = 2 -> "/sys/class/drm/card1/device"
      [] i = 3 -> "/sys/class/drm/card2/device"
      [] OTHER -> "/sys/class/drm/cardN/device"

\* Sequences over S of length at most n.
SeqUpTo(S, n) == UNION {[1..k -> S] : k \in 0..n}

ExecKinds == {"ok", "not_found", "permission_denied", "nonzero_exit"}
TextKinds == ExecKinds \cup {"undecodable"}

VendorFiles == {"absent", "unreadable", "undecodable", "0x1002\n", "0x10de\n"}

\* One line of lspci output: the keywords its lower-cased text contains, and
\* the text after its last colon.
Keywords == {"amd", "vga", "display"}
LspciLines == [kw : SUBSET Keywords, name : {"Navi 21"}]

(***************************************************************************)
(* system_monitor.py: the capability prober.                               *)
(***************************************************************************)
_gpu_detection_cache_ttl == 60

\* dict[k] = v
Put(d, k, v) == [x \in DOMAIN d \cup {k} |-> IF x = k THEN v ELSE d[x]]

EmptyDict == [x \in {} |-> None]

RECURSIVE ScanVendorFiles(_, _)
ScanVendorFiles(cards, i) ==
    IF i > Len(cards) THEN None
    ELSE IF cards[i].vendor = "absent" THEN ScanVendorFiles(cards, i + 1)
    ELSE IF Caught(FileExc(cards[i].vendor), {"IOError", "ValueError"})
         THEN ScanVendorFiles(cards, i + 1)
    ELSE IF Strip(cards[i].vendor) = "0x1002" THEN CardPath(i)
    ELSE ScanVendorFiles(cards, i + 1)

\* A scan that takes the first device directory whatever its vendor file
\* reads.
FirstDeviceDirectory(e) == IF e.cards = <<>> THEN None ELSE CardPath(1)

_perform_amd_gpu_path_detection(e) == ScanVendorFiles(e.cards, 1)

CacheValid(m, t, key) ==
    /\ t - m.cache_time < _gpu_detection_cache_ttl
    /\ key \in DOMAIN m.cache

GetAmdGpuPathMiss(cache, p) ==
    [ret |-> p, cache |-> Put(cache, "amd_gpu_path", p), probes |-> {"sysfs"}]

_get_amd_gpu_path(m, t, e) ==
    IF CacheValid(m, t, "amd_gpu_path")
    THEN [ret |-> m.cache["amd_gpu_path"], cache |-> m.cache, probes |-> {}]
    ELSE GetAmdGpuPathMiss(m.cache, _perform_amd_gpu_path_detection(e))

\* "amd" in out.lower() and ("vga" in out.lower() or "display" in out.lower())
LspciWords(lines) == UNION {lines[i].kw : i \in 1..Len(lines)}

LspciMatchesAmd(lines) ==
    /\ "amd" \in LspciWords(lines)
    /\ LspciWords(lines) \cap {"vga", "display"} # {}

Detected(ret, exc, cache, probes) ==
    [ret |-> ret, exc |-> exc, cache |-> cache, probes |-> probes]

\* The second try block: the sysfs scan (g is its result), then lspci
\* (ls is what running it raises).
DetectAmd(e, g, ls) ==
    IF g.ret # None
    THEN Detected("amd", NoExc, g.cache, {"nvidia-smi"} \cup g.probes)
    ELSE IF ls = NoExc /\ LspciMatchesAmd(e.lspci_out)
    THEN Detected("amd", NoExc, g.cache, {"nvidia-smi", "lspci"} \cup g.probes)
    ELSE IF ls = NoExc \/ Caught(ls, {"SubprocessError", "FileNotFoundError", "IOError"})
    THEN Detected("none", NoExc, g.cache, {"nvidia-smi", "lspci"} \cup g.probes)
    ELSE Detected(None, ls, g.cache, {"nvidia-smi", "lspci"} \cup g.probes)

\* The first try block: nv is what running nvidia-smi raises.
DetectNvidia(m, t, e, nv) ==
    IF nv = NoExc
    THEN Detected("nvidia", NoExc, m.cache, {"nvidia-smi"})
    ELSE IF ~Caught(nv, {"SubprocessError", "FileNotFoundError"})
    THEN Detected(None, nv, m.cache, {"nvidia-smi"})
    ELSE DetectAmd(e, _get_amd_gpu_path(m, t, e), ToolExc(e.lspci_tool))

_perform_gpu_detection(m, t, e) == DetectNvidia(m, t, e, ToolExc(e.nvidia_tool))

\* DetectGpuTypeMiss without the line that stamps the cache with the time.
DetectGpuTypeMissNoStamp(m, t, r) ==
    IF r.exc # NoExc
    THEN [ret |-> None, exc |-> r.exc, cache |-> r.cache,
          cache_time |-> m.cache_time, probes |-> r.probes]
    ELSE [ret |-> r.ret, exc |-> NoExc, cache |-> Put(r.cache, "gpu_type", r.ret),
          cache_time |-> m.cache_time, probes |-> r.probes]

\* A cache miss: r is the detection's result.
DetectGpuTypeMiss(m, t, r) ==
    IF r.exc # NoExc
    THEN [ret |-> None, exc |-> r.exc, cache |-> r.cache,
          cache_time |-> m.cache_time, probes |-> r.probes]
    ELSE [ret |-> r.ret, exc |-> NoExc, cache |-> Put(r.cache, "gpu_type", r.ret),
          cache_time |-> t, probes |-> r.probes]

_detect_gpu_type(m, t, e) ==
    IF CacheValid(m, t, "gpu_type")
    THEN [ret |-> m.cache["gpu_type"], exc |-> NoExc, cache |-> m.cache,
          cache_time |-> m.cache_time, probes |-> {}]
    ELSE DetectGpuTypeMiss(m, t, _perform_gpu_detection(m, t, e))

\* The object before __init__ has run.
NoMonitor ==
    [constructed |-> "no", cache |-> EmptyDict, cache_time |-> 0,
     gpu_type |-> None, _amd_gpu_device_path |-> None]

\* self._amd_gpu_device_path = self._get_amd_gpu_path() if amd else None
InitDevicePath(m, d, p) ==
    [m |-> [m EXCEPT !.constructed = "yes", !.cache = p.cache,
                     !._amd_gpu_device_path = p.ret],
     exc |-> NoExc, ret |-> d.ret, probes |-> d.probes \cup p.probes]

\* The object once self.gpu_type = self._detect_gpu_type() has returned d.
WithGpuType(m, d) ==
    [m EXCEPT !.cache = d.cache, !.cache_time = d.cache_time, !.gpu_type = d.ret]

InitAfterDetect(m1, t, e, d) ==
    IF d.ret = "amd"
    THEN InitDevicePath(m1, d, _get_amd_gpu_path(m1, t, e))
    ELSE [m |-> [m1 EXCEPT !.constructed = "yes"],
          exc |-> NoExc, ret |-> d.ret, probes |-> d.probes]

\* __init__: d is the result of its _detect_gpu_type call.
InitGpuType(m, t, e, d) ==
    IF d.exc # NoExc
    THEN [m |-> [m EXCEPT !.constructed = "raised", !.cache = d.cache],
          exc |-> d.exc, ret |-> None, probes |-> d.probes]
    ELSE InitAfterDetect(WithGpuType(m, d), t, e, d)

\* SystemMonitor(): the object, or the exception the constructor raised.
SystemMonitor(t, e) == InitGpuType(NoMonitor, t, e, _detect_gpu_type(NoMonitor, t, e))

(***************************************************************************)
(* system_monitor.py: the NVIDIA adapter.                                  *)
(*                                                                         *)
(* The CLI's output is the sequence of its comma-separated values, the     *)
(* result of nvidia_smi.split(",").                                        *)
(***************************************************************************)
\* float(s): the numbers the model's texts denote; any other text raises
\* ValueError.
FloatTable ==
    ("0" :> <<0, 1>>) @@ ("30" :> <<30, 1>>) @@ ("37" :> <<37, 1>>) @@
    ("45" :> <<45, 1>>) @@ ("62" :> <<62, 1>>) @@ ("4096" :> <<4096, 1>>) @@
    ("8192" :> <<8192, 1>>) @@ ("120.5" :> <<241, 2>>)

IsFloat(s) == s \in DOMAIN FloatTable
FloatOf(s) == FloatTable[s]

NvidiaKeys ==
    {"type", "name", "temperature", "gpu_utilization", "memory_utilization",
     "memory_used", "memory_total", "power_draw"}

NvidiaError == [status |-> "Error fetching NVIDIA GPU info"]

\* float(power.strip()) if power.strip() else 0
PowerDraw(power) == IF Strip(power) = "" THEN <<0, 1>> ELSE FloatOf(Strip(power))

\* The dict built from the seven values, in the order they are unpacked.
NvidiaSnapshot(f) ==
    [type |-> "NVIDIA", name |-> Strip(f[1]),
     temperature |-> FloatOf(Strip(f[2])),
     gpu_utilization |-> FloatOf(Strip(f[3])),
     memory_utilization |-> FloatOf(Strip(f[4])),
     memory_used |-> FloatOf(Strip(f[5])),
     memory_total |-> FloatOf(Strip(f[6])),
     power_draw |-> PowerDraw(f[7])]

\* The exception the try block raises on the values f, if any: the unpacking
\* needs exactly seven, float() needs a number.
NvidiaParseExc(f) ==
    IF Len(f) # 7 THEN "ValueError"
    ELSE IF \E i \in 2..6 : ~IsFloat(Strip(f[i])) THEN "ValueError"
    ELSE IF Strip(f[7]) # "" /\ ~IsFloat(Strip(f[7])) THEN "ValueError"
    ELSE NoExc

NvidiaParse(f, exc) ==
    IF Caught(exc, {"Exception"}) THEN NvidiaError ELSE NvidiaSnapshot(f)

\* tool is what running the query raises.
NvidiaQuery(e, tool) ==
    IF Caught(tool, {"Exception"}) THEN NvidiaError
    ELSE NvidiaParse(e.nvidia_out, NvidiaParseExc(e.nvidia_out))

_get_nvidia_gpu_info(e) == NvidiaQuery(e, ToolExc(e.nvidia_query))

(***************************************************************************)
(* system_monitor.py: the AMD adapter.                                     *)
(***************************************************************************)
MiB == 1048576

\* int(s): the integers the model's texts denote; any other text raises
\* ValueError.
IntTable ==
    ("0" :> 0) @@ ("1" :> 1) @@ ("37" :> 37) @@ ("45000" :> 45000) @@
    ("45500" :> 45500) @@ ("1048576" :> 1048576) @@ ("2097152" :> 2097152)

IsInt(s) == s \in DOMAIN IntTable
IntOf(s) == IntTable[s]

CardIndex(path) ==
    CASE path = "/sys/class/drm/card0/device" -> 1
      [] path = "/sys/class/drm/card1/device" -> 2
      [] path = "/sys/class/drm/card2/device" -> 3
      [] OTHER -> 0

\* os.path.join(device_path, "gpu_busy_percent")
BusyFile(i) ==
    CASE i = 1 -> "/sys/class/drm/card0/device/gpu_busy_percent"
      [] i = 2 -> "/sys/class/drm/card1/device/gpu_busy_percent"
      [] i = 3 -> "/sys/class/drm/card2/device/gpu_busy_percent"
      [] OTHER -> "/sys/class/drm/cardN/device/gpu_busy_percent"

BusyIndex(path) ==
    CASE path = "/sys/class/drm/card0/device/gpu_busy_percent" -> 1
      [] path = "/sys/class/drm/card1/device/gpu_busy_percent" -> 2
      [] path = "/sys/class/drm/card2/device/gpu_busy_percent" -> 3
      [] OTHER -> 0

\* The state of card i's file ("absent" when the directory is gone).
BusyOf(e, i) == IF i \in 1..Len(e.cards) THEN e.cards[i].busy ELSE "absent"
TempOf(e, i) == IF i \in 1..Len(e.cards) THEN e.cards[i].temp ELSE "absent"

\* os.path.exists(f) and os.access(f, os.R_OK)
Accessible(file) == file \notin {"absent", "noaccess"}

\* The glob over every card's gpu_busy_percent: the first readable match.
RECURSIVE ScanBusyFiles(_, _)
ScanBusyFiles(cards, i) ==
    IF i > Len(cards) THEN None
    ELSE IF cards[i].busy = "absent" THEN ScanBusyFiles(cards, i + 1)
    ELSE IF Accessible(cards[i].busy) THEN BusyFile(i)
    ELSE ScanBusyFiles(cards, i + 1)

_perform_gpu_busy_path_detection(m, e) ==
    IF /\ m._amd_gpu_device_path # None
       /\ Accessible(BusyOf(e, CardIndex(m._amd_gpu_device_path)))
    THEN BusyFile(CardIndex(m._amd_gpu_device_path))
    ELSE ScanBusyFiles(e.cards, 1)

GetGpuBusyPathMiss(cache, p) ==
    [ret |-> p, cache |-> Put(cache, "gpu_busy_path", p), probes |-> {"sysfs_busy"}]

_get_gpu_busy_path(m, t, e) ==
    IF CacheValid(m, t, "gpu_busy_path")
    THEN [ret |-> m.cache["gpu_busy_path"], cache |-> m.cache, probes |-> {}]
    ELSE GetGpuBusyPathMiss(m.cache, _perform_gpu_busy_path_detection(m, e))

\* lspci | grep -E 'VGA|Display|3D' | grep -i amd
GrepAmdDisplay(lines) ==
    SelectSeq(lines, LAMBDA l : "amd" \in l.kw /\ l.kw \cap {"vga", "display", "3d"} # {})

\* What the shell pipeline raises: the shell turns a missing or failing lspci
\* into the exit status of the last grep, which is 1 when nothing matched.
AmdNameExc(e) ==
    IF e.lspci_tool = "undecodable" THEN "UnicodeDecodeError"
    ELSE IF e.lspci_tool # "ok" \/ GrepAmdDisplay(e.lspci_out) = <<>>
    THEN "CalledProcessError"
    ELSE NoExc

\* lspci_output.split(":")[-1].strip()
LastName(lines) == lines[Len(lines)].name

AmdName(e, exc) ==
    IF exc = NoExc THEN LastName(GrepAmdDisplay(e.lspci_out)) ELSE "AMD GPU"

\* The first pattern of temp_paths that matches a file: the file's state.
AmdTempFile(m, e) ==
    IF m._amd_gpu_device_path = None THEN "absent"
    ELSE IF TempOf(e, CardIndex(m._amd_gpu_device_path)) # "absent"
    THEN TempOf(e, CardIndex(m._amd_gpu_device_path))
    ELSE e.hwmon_global

\* int(f.read().strip()) / 1000, when the file is there and holds an integer.
HasAmdTemp(file) ==
    /\ file # "absent"
    /\ ~Caught(FileExc(file), {"IOError", "ValueError"})
    /\ IsInt(Strip(file))

WithAmdTemp(g, file) ==
    IF HasAmdTemp(file)
    THEN Put(g, "temperature", Rat(IntOf(Strip(file)), 1000))
    ELSE g

\* The byte counts the two regular expressions extract, in MB: both 0 unless
\* both matched.
RocmMB(out, field) ==
    IF out.total # "absent" /\ out.used # "absent"
    THEN Rat(IntOf(field), MiB)
    ELSE <<0, 1>>

MemoryFieldsUnguarded(g, used_mb, total_mb) ==
    IF RatPos(total_mb)
    THEN [x \in DOMAIN g \cup {"memory_used", "memory_total", "memory_utilization"} |->
            CASE x = "memory_used" -> used_mb
              [] x = "memory_total" -> total_mb
              [] x = "memory_utilization" ->
                    RatMul(RatDiv(used_mb, total_mb), <<100, 1>>)
              [] OTHER -> g[x]]
    ELSE g

MemoryFields(g, used_mb, total_mb) ==
    IF RatPos(total_mb) /\ RatPos(used_mb)
    THEN [x \in DOMAIN g \cup {"memory_used", "memory_total", "memory_utilization"} |->
            CASE x = "memory_used" -> used_mb
              [] x = "memory_total" -> total_mb
              [] x = "memory_utilization" ->
                    RatMul(RatDiv(used_mb, total_mb), <<100, 1>>)
              [] OTHER -> g[x]]
    ELSE g

WithAmdMemory(g, e, exc) ==
    IF exc = NoExc
    THEN MemoryFields(g, RocmMB(e.rocm_out, e.rocm_out.used),
                      RocmMB(e.rocm_out, e.rocm_out.total))
    ELSE g

\* float(f.read().strip()) of the file at path, when nothing is raised.
HasAmdUtil(path, file) ==
    /\ path # None
    /\ file \notin {"absent", "noaccess", "ioerror"}
    /\ ~Caught(FileExc(file), {"Exception"})
    /\ IsFloat(Strip(file))

WithAmdUtil(g, path, file) ==
    IF HasAmdUtil(path, file)
    THEN Put(g, "gpu_utilization", FloatOf(Strip(file)))
    ELSE g

\* if len(gpu_info) <= 2: gpu_info["status"] = ...
WithLimitedStatus(g) ==
    IF Cardinality(DOMAIN g) <= 2
    THEN Put(g, "status", "Limited AMD GPU info available")
    ELSE g

\* except Exception as e: return {"status": ...}
AmdError(m) ==
    [ret |-> [status |-> "Error fetching AMD GPU info"], cache |-> m.cache,
     probes |-> {}]

\* The utilisation step and the return: b is the _get_gpu_busy_path call.
AmdFromBusy(e, g, b) ==
    [ret |-> WithLimitedStatus(WithAmdUtil(g, b.ret, BusyOf(e, BusyIndex(b.ret)))),
     cache |-> b.cache, probes |-> b.probes]

\* The memory step: exc is what running rocm-smi raises.
AmdFromMemory(m, t, e, g, exc) ==
    IF exc # NoExc /\ ~Caught(exc, {"SubprocessError", "FileNotFoundError"})
    THEN AmdError(m)
    ELSE AmdFromBusy(e, WithAmdMemory(g, e, exc), _get_gpu_busy_path(m, t, e))

\* The name and temperature steps: exc is what the lspci pipeline raises.
AmdFromName(m, t, e, exc) ==
    IF exc # NoExc /\ ~Caught(exc, {"SubprocessError"})
    THEN AmdError(m)
    ELSE AmdFromMemory(m, t, e,
             WithAmdTemp([type |-> "AMD", name |-> AmdName(e, exc)],
                         AmdTempFile(m, e)),
             ToolExc(e.rocm_tool))

_get_amd_gpu_info(m, t, e) == AmdFromName(m, t, e, AmdNameExc(e))

\* get_gpu_info never returns: an external tool it runs with
\* subprocess.check_output, which is given no timeout, hangs ("hangs").  The
\* AMD adapter runs rocm-smi unless the lspci pipeline raised something that
\* its except clause does not catch.
Blocks(m, e) ==
    IF m.gpu_type = "nvidia" THEN e.nvidia_query = "hangs"
    ELSE IF m.gpu_type = "amd"
    THEN \/ e.lspci_tool = "hangs"
         \/ /\ e.rocm_tool = "hangs"
            /\ (AmdNameExc(e) = NoExc \/ Caught(AmdNameExc(e), {"SubprocessError"}))
    ELSE FALSE

get_gpu_info(m, t, e) ==
    IF m.gpu_type = "nvidia"
    THEN [ret |-> _get_nvidia_gpu_info(e), cache |-> m.cache, probes |-> {}]
    ELSE IF m.gpu_type = "amd"
    THEN _get_amd_gpu_info(m, t, e)
    ELSE [ret |-> [status |-> "No supported GPU detected"], cache |-> m.cache,
          probes |-> {}]

(***************************************************************************)
(* main.py: what the callers make of a GPU snapshot.                       *)
(***************************************************************************)
\* main(): has_gpu = "status" not in gpu_info
has_gpu(g) == "status" \notin DOMAIN g

\* main(): the GPU columns of the recording's header.
GpuColumns(g) ==
    IF has_gpu(g) THEN <<"gpu_util", "gpu_mem_util", "gpu_temp">> ELSE <<>>

\* display_monitor_graph: the parts of the text written on row 2.
GraphGpuLine(g) ==
    IF "status" \notin DOMAIN g
    THEN <<"GPU: ", IF "name" \in DOMAIN g THEN g.name ELSE "Unknown GPU">>
    ELSE <<"GPU: ", g.status>>

\* display_monitor_graph: the GPU graphs drawn under the memory graph.
GraphGpuGraphs(g) ==
    IF "status" \notin DOMAIN g
    THEN (IF "gpu_utilization" \in DOMAIN g THEN {"GPU Utilization"} ELSE {})
            \cup (IF {"memory_used", "memory_total"} \subseteq DOMAIN g
                  THEN {"GPU Memory"} ELSE {})
    ELSE {}

\* display_monitor: the first lines of the GPU INFORMATION panel.
PlainGpuPanel(g) ==
    IF "status" \in DOMAIN g
    THEN <<g.status>>
    ELSE <<<<"Type: ", IF "type" \in DOMAIN g THEN g.type ELSE "Unknown">>,
           <<"Model: ", g.name>>>>

(***************************************************************************)
(* main.py: the renderer.                                                  *)
(*                                                                         *)
(* A text is the sequence of its characters.  Attributes (bold, colour     *)
(* pairs) are not modelled.                                                *)
(***************************************************************************)
Min(a, b) == IF a < b THEN a ELSE b
Max(a, b) == IF a > b THEN a ELSE b

\* int(r): truncation towards zero.
RatTrunc(r) == IF r[1] >= 0 THEN r[1] \div r[2] ELSE -((-r[1]) \div r[2])

DigitChar(d) ==
    CASE d = 0 -> "0" [] d = 1 -> "1" [] d = 2 -> "2" [] d = 3 -> "3"
      [] d = 4 -> "4" [] d = 5 -> "5" [] d = 6 -> "6" [] d = 7 -> "7"
      [] d = 8 -> "8" [] d = 9 -> "9"

\* str(n) for n >= 0
RECURSIVE Digits(_)
Digits(n) == IF n < 10 THEN <<DigitChar(n)>> ELSE Digits(n \div 10) \o <<DigitChar(n % 10)>>

\* f"{n:3d}": right-aligned in at least three characters.
Fmt3d(n) ==
    [i \in 1..(3 - Min(3, Len(Digits(n)))) |-> " "] \o Digits(n)

Blank(max_y, max_x) == [p \in (0..(max_y - 1)) \X (0..(max_x - 1)) |-> " "]

Screen(max_y, max_x) == [max_y |-> max_y, max_x |-> max_x, cells |-> Blank(max_y, max_x)]

NoScreen == Screen(0, 0)

\* stdscr.addstr(y, x, text): the cursor move fails outside the window and
\* nothing is written; otherwise the characters are written from (y, x) on,
\* wrapping at the right margin, and the call fails once the cursor cannot
\* advance past the lower-right corner.
AddstrExc(s, y, x, n) ==
    IF ~(y >= 0 /\ y < s.max_y /\ x >= 0 /\ x < s.max_x) THEN "curses.error"
    ELSE IF n > 0 /\ y * s.max_x + x + n >= s.max_y * s.max_x THEN "curses.error"
    ELSE NoExc

\* len(text), for a text given by its parts.
RECURSIVE TextLen(_)
TextLen(text) == IF text = <<>> THEN 0 ELSE Len(Head(text)) + TextLen(Tail(text))

Addstr(s, y, x, text) ==
    IF ~(y >= 0 /\ y < s.max_y /\ x >= 0 /\ x < s.max_x)
    THEN [scr |-> s, exc |-> AddstrExc(s, y, x, TextLen(text))]
    ELSE [scr |-> [s EXCEPT !.cells =
                     [p \in DOMAIN s.cells |->
                        IF /\ p[1] * s.max_x + p[2] >= y * s.max_x + x
                           /\ p[1] * s.max_x + p[2] < y * s.max_x + x + Len(text)
                        THEN text[p[1] * s.max_x + p[2] - (y * s.max_x + x) + 1]
                        ELSE s.cells[p]]],
          exc |-> AddstrExc(s, y, x, TextLen(text))]

\* except curses.error: pass
IgnoreCursesError(r) ==
    [scr |-> r.scr, exc |-> IF Caught(r.exc, {"curses.error"}) THEN NoExc ELSE r.exc]

\* safe_addstr without the truncation of the text to the width left.
SafeAddstrUntruncated(s, y, x, text) ==
    IF y >= 0 /\ y < s.max_y /\ x >= 0 /\ x < s.max_x
    THEN IgnoreCursesError(Addstr(s, y, x, text))
    ELSE [scr |-> s, exc |-> NoExc]

safe_addstr(s, y, x, text) ==
    IF y >= 0 /\ y < s.max_y /\ x >= 0 /\ x < s.max_x
    THEN IgnoreCursesError(Addstr(s, y, x, SubSeq(text, 1, Min(Len(text), s.max_x - x))))
    ELSE [scr |-> s, exc |-> NoExc]

Write(y, x, text) == [y |-> y, x |-> x, text |-> text]

\* The row of a data point: height - int((v / y_max) * height), kept within
\* 0..height-1.
PlotRow(v, height, y_max) ==
    Max(0, Min(height - 1,
               height - RatTrunc(RatMul(RatDiv(v, RatInt(y_max)), RatInt(height)))))

\* The glyph of the segment from row y1 to row y2; the box-drawing characters
\* are named by their code points (U+2571 and U+2572 the diagonals, U+2500
\* the horizontal, U+2502 the vertical).
PlotChar(y1, y2) == IF y1 < y2 THEN "u2571" ELSE IF y1 > y2 THEN "u2572" ELSE "u2500"

\* The writes of the plot's i-th step (i from 0): x1 = i and x2 = i + 1.
PlotWrites(y_start, x_start, height, x1, x2, y1, y2) ==
    IF x1 = x2
    THEN [k \in 1..(Max(y1, y2) - Min(y1, y2) + 1) |->
            Write(y_start + 1 + Min(y1, y2) + k - 1, x_start + 1 + x1, <<"u2502">>)]
    ELSE <<Write(y_start + 1 + y1, x_start + 1 + x1, <<PlotChar(y1, y2)>>)>>

RECURSIVE Flatten(_)
Flatten(ss) == IF ss = <<>> THEN <<>> ELSE Head(ss) \o Flatten(Tail(ss))

\* The writes of the plot loop: step i (from 0) is drawn in column i of the
\* plot area from data[data_len - 1 - i] and data[data_len - 2 - i].
PlotPart(y_start, x_start, width, height, data, y_max) ==
    Flatten([k \in 1..Max(0, Min(width, Len(data) - 1)) |->
          PlotWrites(y_start, x_start, height, k - 1, k,
                     PlotRow(data[Len(data) - (k - 1)], height, y_max),
                     PlotRow(data[Len(data) - 1 - (k - 1)], height, y_max))])

\* Every stdscr.addstr call of draw_graph, in the order the code makes them.
DrawGraphWrites(y_start, x_start, width, height, data, title, y_max) ==
    <<Write(y_start, x_start, title)>>
    \o [k \in 1..(2 * Max(0, height)) |->
          IF k % 2 = 1
          THEN Write(y_start + 1 + (k - 1) \div 2, x_start, <<"|">>)
          ELSE Write(y_start + 1 + (k - 1) \div 2, x_start + width + 1, <<"|">>)]
    \o [k \in 1..Max(0, width + 2) |->
          Write(y_start + height + 1, x_start + k - 1, <<"-">>)]
    \o <<Write(y_start + 1, x_start - 4, Fmt3d(y_max) \o <<"%">>),
         Write(y_start + height \div 2, x_start - 4, Fmt3d(y_max \div 2) \o <<"%">>),
         Write(y_start + height, x_start - 4, <<" ", " ", "0", "%">>)>>
    \o PlotPart(y_start, x_start, width, height, data, y_max)

\* The writes are made one after the other; the first that raises ends the
\* function.
RECURSIVE RunWrites(_, _, _)
RunWritesFrom(r, writes, i) ==
    IF r.exc # NoExc THEN r ELSE RunWrites(r.scr, writes, i + 1)

RunWrites(s, writes, i) ==
    IF i > Len(writes) THEN [scr |-> s, exc |-> NoExc]
    ELSE RunWritesFrom(Addstr(s, writes[i].y, writes[i].x, writes[i].text), writes, i)

draw_graph(s, y_start, x_start, width, height, data, title, y_max) ==
    RunWrites(s, DrawGraphWrites(y_start, x_start, width, height, data, title, y_max), 1)

(***************************************************************************)
(* main.py: the dashboards.                                                *)
(*                                                                         *)
(* The dashboards' terminal is modelled by its size: their writes are      *)
(* checked against it, the glyphs they leave are not tracked.  A text is   *)
(* the sequence of its parts.                                              *)
(***************************************************************************)
history_length == 120
GraphMinHeight == 35
GraphMinWidth == 100
PlainMinHeight == 25
PlainMinWidth == 80

\* A terminal of the dashboards.
Terminal(max_y, max_x) == [max_y |-> max_y, max_x |-> max_x, cells |-> <<>>]

\* collections.deque([0] * history_length, maxlen=history_length)
ZeroHistory == [i \in 1..history_length |-> <<0, 1>>]

HistoryNames == {"cpu", "memory", "gpu_util", "gpu_memory", "disk"}

NoHist == [n \in HistoryNames |-> <<>>]

\* deque.append(v): the new value goes to the other end, and a full deque
\* drops the value at index 0.
AppendRight(h, v) == SubSeq(h \o <<v>>, Max(1, Len(h) + 2 - history_length), Len(h) + 1)

\* deque.appendleft(v) on a deque of maxlen history_length: the new value
\* goes to index 0, and a full deque drops the value at its other end.
AppendLeft(h, v) == SubSeq(<<v>> \o h, 1, Min(Len(h) + 1, history_length))

\* psutil.disk_usage(mountpoint) of one partition: the percentage the code
\* computes, (used / total) * 100, 0 for an empty filesystem.
UsageEntry(p) ==
    [device |-> p.device,
     percent |-> IF p.total > 0 THEN RatMul(Rat(p.used, p.total), <<100, 1>>) ELSE <<0, 1>>]

\* The partitions whose usage is reported, in order: virtual filesystems (no
\* fstype) and those whose disk_usage raises PermissionError or OSError are
\* skipped.
RECURSIVE DiskUsage(_)
DiskUsage(ps) ==
    IF ps = <<>> THEN <<>>
    ELSE IF Head(ps).fstype = "" THEN DiskUsage(Tail(ps))
    ELSE IF Caught(Head(ps).usage_exc, {"PermissionError", "IOError"}) THEN DiskUsage(Tail(ps))
    ELSE <<UsageEntry(Head(ps))>> \o DiskUsage(Tail(ps))

\* What the loop over the partitions raises: the first exception of a
\* disk_usage call that the inner except clause does not catch.
RECURSIVE DiskUsageExc(_)
DiskUsageExc(ps) ==
    IF ps = <<>> THEN NoExc
    ELSE IF /\ Head(ps).fstype # ""
            /\ Head(ps).usage_exc # NoExc
            /\ ~Caught(Head(ps).usage_exc, {"PermissionError", "IOError"})
    THEN Head(ps).usage_exc
    ELSE DiskUsageExc(Tail(ps))

\* except Exception as e: the status variant with the reason (every
\* exception of the sources is an Exception).
DiskError(exc) == [status |-> "Error fetching disk I/O info: " \o exc]

\* get_disk_io_info on the disk source d: d.io is what
\* psutil.disk_io_counters() does ("ok", "none" for a None result, or the
\* exception it raises), d.counters its totals, d.partitions the mounted
\* partitions.
get_disk_io_info(d) ==
    IF d.io = "none" THEN [status |-> "Disk I/O information not available"]
    ELSE IF d.io # "ok" THEN DiskError(d.io)
    ELSE IF DiskUsageExc(d.partitions) # NoExc THEN DiskError(DiskUsageExc(d.partitions))
    ELSE [total |-> d.counters, usage |-> DiskUsage(d.partitions)]

\* The value of the first disk's usage, 0 when there is none.
FirstDiskUsage(disk_info) ==
    IF "status" \notin DOMAIN disk_info /\ disk_info.usage # <<>>
    THEN disk_info.usage[1].percent
    ELSE <<0, 1>>

GpuMemoryPercent(g) ==
    IF "memory_utilization" \in DOMAIN g THEN g.memory_utilization
    ELSE IF /\ "memory_used" \in DOMAIN g
            /\ "memory_total" \in DOMAIN g
            /\ RatPos(g.memory_total)
    THEN RatMul(RatDiv(g.memory_used, g.memory_total), <<100, 1>>)
    ELSE <<0, 1>>

\* The five values a tick pushes.
Pushed(s, g) ==
    [cpu |-> s.cpu_info.average_usage,
     memory |-> s.memory_info.percent,
     disk |-> FirstDiskUsage(s.disk_info),
     gpu_util |-> IF "gpu_utilization" \in DOMAIN g THEN g.gpu_utilization ELSE <<0, 1>>,
     gpu_memory |-> GpuMemoryPercent(g)]

\* An update that pushes onto a series only when its value is not 0.
UpdateHistoryNonZero(hist, p) ==
    [n \in HistoryNames |-> IF p[n] = <<0, 1>> THEN hist[n] ELSE AppendLeft(hist[n], p[n])]

UpdateHistory(hist, p) == [n \in HistoryNames |-> AppendLeft(hist[n], p[n])]

\* A disk graph that always starts right under the memory graph.
DiskYStartFixed(g) == 24

\* Where the disk graph starts: under the GPU graphs that are drawn.
DiskYStart(g) ==
    24 + (IF "status" \notin DOMAIN g /\ "gpu_utilization" \in DOMAIN g THEN 9 ELSE 0)
       + (IF "status" \notin DOMAIN g /\ {"memory_used", "memory_total"} \subseteq DOMAIN g
          THEN 9 ELSE 0)

GpuGraphWrites(g, width, hist) ==
    (IF "status" \notin DOMAIN g /\ "gpu_utilization" \in DOMAIN g
     THEN DrawGraphWrites(24, 5, width, 6, hist.gpu_util,
                          <<"GPU Utilization (%) - Last 2 Minutes">>, 100)
     ELSE <<>>)
    \o (IF "status" \notin DOMAIN g /\ {"memory_used", "memory_total"} \subseteq DOMAIN g
        THEN DrawGraphWrites(IF "gpu_utilization" \in DOMAIN g THEN 33 ELSE 24,
                             5, width, 6, hist.gpu_memory,
                             <<"GPU Memory Usage (%) - Last 2 Minutes">>, 100)
        ELSE <<>>)

\* The stdscr.addstr calls of one frame of the graph dashboard, in order
\* (the GPU line goes through safe_addstr and is not among them).
GraphFrameWrites(s, g, width, hist) ==
    <<Write(0, 0, <<"Linux Hardware Monitor (Graph Mode) - ", "HH:MM:SS",
                    " (Press 'q' to quit)">>),
      Write(1, 0, <<"CPU: ", s.cpu_info.name, " | ", "Cores: ">>
                  \o Digits(s.cpu_info.physical_count) \o <<" Physical, ">>
                  \o Digits(s.cpu_info.count) \o <<" Logical">>)>>
    \o DrawGraphWrites(4, 5, width, 8, hist.cpu,
                       <<"CPU Usage (%) - Last 2 Minutes">>, 100)
    \o DrawGraphWrites(15, 5, width, 6, hist.memory,
                       <<"Memory Usage (%) - Last 2 Minutes">>, 100)
    \o GpuGraphWrites(g, width, hist)
    \o DrawGraphWrites(DiskYStart(g), 5, width, 6, hist.disk,
                       <<"Disk Usage (%) - Last 2 Minutes">>, 100)

\* What the frame's writes raise: the first failing write ends the frame.
FrameExc(s, writes) ==
    IF \E i \in 1..Len(writes) :
          AddstrExc(s, writes[i].y, writes[i].x, TextLen(writes[i].text)) # NoExc
    THEN "curses.error"
    ELSE NoExc

\* monitor.get_network_info(): SystemMonitor defines no such method.
get_network_info(m) == [ret |-> None, exc |-> "AttributeError"]

\* main.py: the recorder (--record).
GiB == 1024 * MiB

\* dict.get(key, default)
Get(g, key, default) == IF key \in DOMAIN g THEN g[key] ELSE default

BaseColumns == <<"timestamp", "cpu_usage", "mem_usage", "mem_used_gb", "mem_total_gb">>

DiskColumns(disk_info) ==
    IF "status" \notin DOMAIN disk_info
    THEN <<"disk_read_mb", "disk_write_mb", "disk_read_ops", "disk_write_ops",
           "primary_disk_usage_pct">>
    ELSE <<>>

\* The header written at the start of the run.
Header(g, disk_info) == BaseColumns \o GpuColumns(g) \o DiskColumns(disk_info)

BaseValues(s) ==
    <<"YYYY-MM-DD HH:MM:SS", s.cpu_info.average_usage, s.memory_info.percent,
      Rat(s.memory_info.used, GiB), Rat(s.memory_info.total, GiB)>>

\* The GPU values of a row: a missing field is written as 0.
GpuValues(g) ==
    <<Get(g, "gpu_utilization", <<0, 1>>), Get(g, "memory_utilization", <<0, 1>>),
      Get(g, "temperature", <<0, 1>>)>>

\* The disk values of a row; disk_info["total"] raises KeyError on the status
\* variant.
DiskValuesExc(disk_info) == IF "total" \in DOMAIN disk_info THEN NoExc ELSE "KeyError"

DiskValues(disk_info) ==
    <<Rat(disk_info.total.read_bytes, MiB), Rat(disk_info.total.write_bytes, MiB),
      RatInt(disk_info.total.read_count), RatInt(disk_info.total.write_count),
      IF disk_info.usage # <<>> THEN disk_info.usage[1].percent ELSE <<0, 1>>>>

\* One iteration of the recorder's loop: the row it writes, or what it
\* raises before writing.
RecordRow(rec, s, g) ==
    IF rec.has_disk_io /\ DiskValuesExc(s.disk_info) # NoExc
    THEN [row |-> <<>>, exc |-> DiskValuesExc(s.disk_info)]
    ELSE [row |-> BaseValues(s)
                  \o (IF rec.has_gpu THEN GpuValues(g) ELSE <<>>)
                  \o (IF rec.has_disk_io THEN DiskValues(s.disk_info) ELSE <<>>),
          exc |-> NoExc]

NoRec == [has_gpu |-> FALSE, has_disk_io |-> FALSE, header |-> <<>>, rows |-> <<>>]

\* The recorder after the monitor is built and the header written: r is the
\* constructor's outcome, g and disk_info the first GPU and disk snapshots.
RecordStarted(d, r, g, disk_info) ==
    IF r.exc # NoExc THEN [d EXCEPT !.pc = "raised", !.exc = r.exc]
    ELSE [d EXCEPT !.pc = "normal", !.gpu_info = g,
                   !.rec = [has_gpu |-> has_gpu(g),
                            has_disk_io |-> "status" \notin DOMAIN disk_info,
                            header |-> Header(g, disk_info),
                            rows |-> <<>>]]

RecordTicked(d, s, g, w) ==
    [d EXCEPT !.ticks = d.ticks + 1, !.sample = s,
              !.gpu_info = IF d.rec.has_gpu THEN g ELSE d.gpu_info,
              !.exc = w.exc,
              !.pc = IF w.exc # NoExc THEN "raised" ELSE "normal",
              !.rec.rows = IF w.exc # NoExc THEN d.rec.rows ELSE Append(d.rec.rows, w.row)]

NoDash ==
    [mode |-> "none", pc |-> "off", exc |-> NoExc, ticks |-> 0, graph_width |-> 0,
     hist |-> NoHist, sample |-> None, gpu_info |-> None, network_info |-> None,
     key |-> None, frame |-> "none", start |-> [max_y |-> 0, max_x |-> 0],
     rec |-> NoRec]

\* A start that takes the small-terminal branch only when both dimensions
\* are too small.
GraphStartedBothSmall(d, s, r) ==
    IF r.exc # NoExc THEN [d EXCEPT !.pc = "raised", !.exc = r.exc]
    ELSE IF s.max_y < GraphMinHeight /\ s.max_x < GraphMinWidth
    THEN [d EXCEPT !.pc = "degraded", !.start = [max_y |-> s.max_y, max_x |-> s.max_x]]
    ELSE [d EXCEPT !.pc = "normal",
                   !.start = [max_y |-> s.max_y, max_x |-> s.max_x],
                   !.hist = [n \in HistoryNames |-> ZeroHistory],
                   !.graph_width = Min(s.max_x - 14, 100)]

\* The dashboard after the monitor is built and the terminal measured:
\* r is the constructor's outcome.
GraphStarted(d, s, r) ==
    IF r.exc # NoExc THEN [d EXCEPT !.pc = "raised", !.exc = r.exc]
    ELSE IF s.max_y < GraphMinHeight \/ s.max_x < GraphMinWidth
    THEN [d EXCEPT !.pc = "degraded", !.start = [max_y |-> s.max_y, max_x |-> s.max_x]]
    ELSE [d EXCEPT !.pc = "normal",
                   !.start = [max_y |-> s.max_y, max_x |-> s.max_x],
                   !.hist = [n \in HistoryNames |-> ZeroHistory],
                   !.graph_width = Min(s.max_x - 14, 100)]

PlainStarted(d, s, r) ==
    IF r.exc # NoExc THEN [d EXCEPT !.pc = "raised", !.exc = r.exc]
    ELSE IF s.max_y < PlainMinHeight \/ s.max_x < PlainMinWidth
    THEN [d EXCEPT !.pc = "degraded", !.start = [max_y |-> s.max_y, max_x |-> s.max_x]]
    ELSE [d EXCEPT !.pc = "normal", !.start = [max_y |-> s.max_y, max_x |-> s.max_x]]

\* One iteration of the graph dashboard's loop: g is the GPU snapshot, hist
\* the histories after the update, exc what drawing the frame raises.
GraphTicked(d, sample, g, hist, exc, key) ==
    [d EXCEPT !.ticks = d.ticks + 1, !.sample = sample, !.gpu_info = g,
              !.hist = hist, !.exc = exc,
              !.frame = IF exc = NoExc THEN "complete" ELSE "partial",
              !.key = IF exc = NoExc THEN key ELSE None,
              !.pc = IF exc # NoExc THEN "raised"
                     ELSE IF key = "q" THEN "quit" ELSE "normal"]

(***************************************************************************)
(* Machines.                                                               *)
(***************************************************************************)
NoCardFiles == [temp : {"absent"}, busy : {"absent"}]

\* A machine with nothing installed: every tool missing, no device directory.
BareMachine ==
    [nvidia_tool |-> "not_found", nvidia_query |-> "not_found",
     nvidia_out |-> <<"">>,
     cards |-> <<>>, hwmon_global |-> "absent",
     lspci_tool |-> "not_found", lspci_out |-> <<>>,
     rocm_tool |-> "not_found", rocm_out |-> [total |-> "absent", used |-> "absent"]]

Card(v, t, b) == [vendor |-> v, temp |-> t, busy |-> b]

\* Every behaviour of the three detection sources, within the bounds.
DetectMachines(cards, lines) ==
    {[BareMachine EXCEPT !.nvidia_tool = n, !.cards = c,
                         !.lspci_tool = l[1], !.lspci_out = l[2]] :
        n \in ExecKinds,
        c \in SeqUpTo({Card(v, "absent", "absent") : v \in VendorFiles}, cards),
        l \in ((TextKinds \ {"ok"}) \X {<<>>})
              \cup ({"ok"} \X SeqUpTo(LspciLines, lines))}

AmdVgaLine == [kw |-> {"amd", "vga"}, name |-> "Navi 21"]

\* The machines of the cache runs: each source either detects or is missing.
ProbeMachines ==
    {[BareMachine EXCEPT !.nvidia_tool = n, !.cards = c,
                         !.lspci_tool = l[1], !.lspci_out = l[2]] :
        n \in {"ok", "not_found", "permission_denied"},
        c \in {<<>>, <<Card("0x1002\n", "absent", "absent")>>},
        l \in {<<"not_found", <<>>>>, <<"ok", <<AmdVgaLine>>>>}}

\* Scenario B's output, as the CLI prints it (a space after each comma).
NvidiaGood == <<"RTX X", " 62", "45", "30", "4096", "8192", "120.5">>

\* Outputs of the query: the good one, one value empty or not a number, too
\* few or too many values, nothing at all.
NvidiaTexts ==
    {NvidiaGood, NvidiaGood \o <<"x">>, <<"">>}
        \cup {[NvidiaGood EXCEPT ![i] = v] : i \in 2..7, v \in {"", "[N/A]"}}
        \cup {SubSeq(NvidiaGood, 1, k) : k \in 1..6}

NvidiaMachines ==
    {[BareMachine EXCEPT !.nvidia_tool = "ok", !.nvidia_query = q[1],
                         !.nvidia_out = q[2]] :
        q \in ((TextKinds \ {"ok"}) \X {<<"">>}) \cup ({"ok"} \X NvidiaTexts)}

AdapterCards ==
    {Card("0x1002\n", t, b) : t \in {"absent", "unreadable", "45500\n", "garbage"},
                              b \in {"absent", "noaccess", "ioerror", "37\n", "garbage"}}
        \cup {Card("0x10de\n", "45500\n", "37\n")}

RocmOutputs ==
    ((TextKinds \ {"ok"}) \X {[total |-> "absent", used |-> "absent"]})
        \cup ({"ok"} \X [total : {"absent", "0", "1048576", "2097152"},
                         used : {"absent", "0", "1048576"}])

\* Machines without the NVIDIA CLI: every behaviour of the AMD adapter's four
\* sources.
AmdMachines ==
    {[BareMachine EXCEPT !.cards = c, !.hwmon_global = h,
                         !.lspci_tool = l[1], !.lspci_out = l[2],
                         !.rocm_tool = r[1], !.rocm_out = r[2]] :
        c \in SeqUpTo(AdapterCards, MaxAdapterCards),
        h \in {"absent", "45000\n"},
        l \in {<<"not_found", <<>>>>, <<"undecodable", <<AmdVgaLine>>>>,
               <<"ok", <<>>>>, <<"ok", <<AmdVgaLine>>>>},
        r \in RocmOutputs}

AdapterMachines == NvidiaMachines \cup AmdMachines

\* obs: the call's name, time and machine, and its outcome.
Call(op, t, e, ret, exc, probes) ==
    [op |-> op, t |-> t, machine |-> e, ret |-> ret, exc |-> exc, probes |-> probes]

NoCall == Call("none", 0, BareMachine, None, NoExc, {})

NoFirst == [time |-> 0, vendor |-> None]

(***************************************************************************)
(* Actions on the monitor.                                                 *)
(***************************************************************************)
\* monitor = SystemMonitor()
Construct ==
    /\ mon.constructed = "no"
    /\ \E r \in {SystemMonitor(now, env)} :
          /\ mon' = r.m
          /\ obs' = Call("__init__", now, env, r.ret, r.exc, r.probes)
          /\ first' = [time |-> now, vendor |-> r.ret]
    /\ UNCHANGED <<env, now, scr, dash>>

\* A later call of monitor._detect_gpu_type()
DetectGpuType ==
    /\ mon.constructed = "yes"
    /\ \E d \in {_detect_gpu_type(mon, now, env)} :
          /\ mon' = [mon EXCEPT !.cache = d.cache, !.cache_time = d.cache_time]
          /\ obs' = Call("_detect_gpu_type", now, env, d.ret, d.exc, d.probes)
    /\ UNCHANGED <<env, now, first, scr, dash>>

\* gpu_info = monitor.get_gpu_info()
GetGpuInfo ==
    /\ mon.constructed = "yes"
    /\ \E r \in {get_gpu_info(mon, now, env)} :
          /\ mon' = [mon EXCEPT !.cache = r.cache]
          /\ obs' = Call("get_gpu_info", now, env, r.ret, NoExc, r.probes)
    /\ UNCHANGED <<env, now, first, scr, dash>>

\* The clock advances: the steps reach both sides of the ttl boundary
\* (59 and 60 seconds after a probe).
TimeSteps == {20, 59}


Advance ==
    /\ mon.constructed = "yes"
    /\ \E d \in TimeSteps :
          /\ now + d <= StartTime + MaxElapsed
          /\ now' = now + d
    /\ UNCHANGED <<env, mon, obs, first, scr, dash>>

\* Hardware or tools are added or removed while the program runs.
Replug ==
    /\ mon.constructed = "yes"
    /\ \E e \in ProbeMachines : e # env /\ env' = e
    /\ UNCHANGED <<now, mon, obs, first, scr, dash>>

\* The arguments of the calls of the renderer runs.
Terminals == {Screen(r, c) : r \in (MaxRows - 1)..MaxRows, c \in (MaxCols - 1)..MaxCols}

Titles == {<<"C", "P", "U">>, <<"M", "e", "m", "o", "r", "y">>}

DataValues == {<<0, 1>>, <<50, 1>>, <<100, 1>>}

GraphArgs ==
    [y_start : {-1, 0, MaxRows - MaxHeight - 2, MaxRows - 2}, x_start : {4, 5},
     width : (MaxWidth - 1)..MaxWidth, height : (MaxHeight - 1)..MaxHeight, data : SeqUpTo(DataValues, MaxData), title : Titles,
     y_max : {100}]

TextArgs == [y : {-1, 0, MaxRows - 1, MaxRows}, x : {-1, 0, MaxCols - 4, MaxCols - 1, MaxCols}, text : Titles]

\* The inputs of one iteration of draw_graph's plot loop: the two samples it
\* reads (older at column i, newer at column i + 1), the height and y_max.
PlotValues ==
    {<<-10, 1>>, <<0, 1>>, <<25, 2>>, <<30, 1>>, <<50, 1>>, <<60, 1>>, <<75, 1>>,
     <<100, 1>>, <<150, 1>>}

PlotArgs ==
    [older : PlotValues, newer : PlotValues, height : 1..MaxPlotHeight,
     y_max : {50, 100}, i : 0..1]

\* What iteration a.i computes and writes, for a graph at (4, 5).
PlotOutcome(a, y1, y2) ==
    [y1 |-> y1, y2 |-> y2, writes |-> PlotWrites(4, 5, a.height, a.i, a.i + 1, y1, y2)]

\* One iteration of the plot loop of draw_graph.
PlotStep ==
    /\ obs = NoCall
    /\ \E a \in PlotArgs :
          obs' = Call("plot", now, a,
                      PlotOutcome(a, PlotRow(a.older, a.height, a.y_max),
                                  PlotRow(a.newer, a.height, a.y_max)),
                      NoExc, {})
    /\ UNCHANGED <<env, now, mon, first, scr, dash>>

\* draw_graph(stdscr, ...) as the first call after stdscr.clear()
DrawGraph ==
    /\ obs = NoCall
    /\ \E a \in GraphArgs :
         \E r \in {draw_graph(scr, a.y_start, a.x_start, a.width, a.height,
                              a.data, a.title, a.y_max)} :
            /\ scr' = r.scr
            /\ obs' = Call("draw_graph", now, a, None, r.exc, {})
    /\ UNCHANGED <<env, now, mon, first, dash>>

\* safe_addstr(stdscr, y, x, text) as the first call after stdscr.clear()
SafeAddstr ==
    /\ obs = NoCall
    /\ \E a \in TextArgs :
         \E r \in {safe_addstr(scr, a.y, a.x, a.text)} :
            /\ scr' = r.scr
            /\ obs' = Call("safe_addstr", now, a, None, r.exc, {})
    /\ UNCHANGED <<env, now, mon, first, dash>>

\* stdscr.clear()
Clear ==
    /\ obs # NoCall
    /\ scr' = [scr EXCEPT !.cells = Blank(scr.max_y, scr.max_x)]
    /\ obs' = NoCall
    /\ UNCHANGED <<env, now, mon, first, dash>>

(***************************************************************************)
(* Actions of the dashboards.                                              *)
(***************************************************************************)
\* stdscr.getch() with a timeout of one second: a key, or none.
Keys == {"q", "x", "none"}

Partition(device, fstype, usage_exc, used, total) ==
    [device |-> device, fstype |-> fstype, usage_exc |-> usage_exc,
     used |-> used, total |-> total]

DiskSource(io, partitions) ==
    [io |-> io,
     counters |-> [read_bytes |-> 3 * MiB, write_bytes |-> MiB,
                   read_count |-> 7, write_count |-> 5],
     partitions |-> partitions]

FullDisk ==
    DiskSource("ok", <<Partition("proc", "", NoExc, 0, 0),
                       Partition("/dev/sdc1", "ext4", "PermissionError", 0, 0),
                       Partition("/dev/sda1", "ext4", NoExc, 55, 100),
                       Partition("/dev/sdb1", "ext4", NoExc, 90, 100)>>)

\* What psutil reports about the disks in one tick.
DiskSources ==
    {DiskSource("none", <<>>),
     DiskSource("IOError", <<>>),
     DiskSource("ok", <<>>),
     DiskSource("ok", <<Partition("/dev/sdd1", "ext4", "ValueError", 0, 0)>>),
     FullDisk}

CpuInfo(average_usage) ==
    [average_usage |-> average_usage, name |-> "CPU X", physical_count |-> 4, count |-> 8]

MemoryInfo(percent) ==
    [percent |-> percent, used |-> 512 * MiB, total |-> 1024 * MiB]

Sample(cpu, memory, d) ==
    [cpu_info |-> CpuInfo(cpu), memory_info |-> MemoryInfo(memory),
     disk_info |-> get_disk_io_info(d)]

\* What the metrics provider returns in one tick of a dashboard.
Samples ==
    {Sample(<<25, 1>>, <<40, 1>>, DiskSource("none", <<>>)),
     Sample(<<75, 1>>, <<125, 2>>, FullDisk),
     Sample(<<100, 1>>, <<40, 1>>, DiskSource("IOError", <<>>))}

\* An AMD machine whose four sources all answer.
AmdFullMachine ==
    [BareMachine EXCEPT !.cards = <<Card("0x1002\n", "45500\n", "37\n")>>,
                        !.lspci_tool = "ok", !.lspci_out = <<AmdVgaLine>>,
                        !.rocm_tool = "ok",
                        !.rocm_out = [total |-> "2097152", used |-> "1048576"]]

\* An AMD machine found by lspci only: nothing but vendor and name.
AmdLimitedMachine ==
    [BareMachine EXCEPT !.lspci_tool = "ok", !.lspci_out = <<AmdVgaLine>>]

NvidiaGoodMachine ==
    [BareMachine EXCEPT !.nvidia_tool = "ok", !.nvidia_query = "ok",
                        !.nvidia_out = NvidiaGood]

\* AMD machines whose snapshot has the utilisation only, the memory fields
\* only.
AmdUtilOnlyMachine ==
    [BareMachine EXCEPT !.cards = <<Card("0x1002\n", "absent", "37\n")>>]

AmdMemoryOnlyMachine ==
    [BareMachine EXCEPT !.cards = <<Card("0x1002\n", "absent", "absent")>>,
                        !.rocm_tool = "ok",
                        !.rocm_out = [total |-> "2097152", used |-> "1048576"]]

\* One machine for each combination of GPU fields in the snapshot.
LayoutMachines ==
    {BareMachine, AmdLimitedMachine, AmdUtilOnlyMachine, AmdMemoryOnlyMachine,
     AmdFullMachine, NvidiaGoodMachine}

\* A terminal with room for five graphs.
LayoutTerminals == {Terminal(50, 120)}

GraphMachines ==
    {BareMachine, NvidiaGoodMachine, AmdFullMachine, AmdLimitedMachine,
     [BareMachine EXCEPT !.nvidia_tool = "permission_denied"]}

\* Machines on which an external tool of the GPU snapshot hangs, and the
\* same machines with the tool answering.
StallMachines ==
    {BareMachine, NvidiaGoodMachine, AmdFullMachine,
     [NvidiaGoodMachine EXCEPT !.nvidia_query = "hangs"],
     [AmdFullMachine EXCEPT !.rocm_tool = "hangs"],
     [AmdFullMachine EXCEPT !.lspci_tool = "hangs"]}

GraphTerminals ==
    {Terminal(GraphMinHeight - 1, GraphMinWidth), Terminal(GraphMinHeight, GraphMinWidth),
     Terminal(50, 120)}

PlainMachines == NvidiaMachines \cup GraphMachines

PlainTerminals ==
    {Terminal(PlainMinHeight - 1, PlainMinWidth), Terminal(PlainMinHeight, PlainMinWidth - 1),
     Terminal(PlainMinHeight, PlainMinWidth), Terminal(40, 100)}

\* display_monitor_graph up to its loop: the monitor is built, the terminal
\* measured, the histories filled with zeros.
GraphStart ==
    /\ dash.mode = "graph"
    /\ dash.pc = "start"
    /\ \E r \in {SystemMonitor(now, env)} :
          /\ mon' = r.m
          /\ obs' = Call("__init__", now, env, r.ret, r.exc, r.probes)
          /\ first' = [time |-> now, vendor |-> r.ret]
          /\ dash' = GraphStarted(dash, scr, r)
    /\ UNCHANGED <<env, now, scr>>

\* The loop of the too-small terminal: only q ends it.
GraphDegradedKey ==
    /\ dash.mode = "graph"
    /\ dash.pc = "degraded"
    /\ \E key \in Keys :
          dash' = [dash EXCEPT !.key = key,
                               !.pc = IF key = "q" THEN "quit" ELSE "degraded"]
    /\ UNCHANGED <<env, now, mon, obs, first, scr>>

\* One iteration of display_monitor_graph's loop: sample, update the
\* histories, draw the frame, read a key.  When the GPU snapshot never
\* returns the loop stays in that call ("blocked").
GraphTick ==
    /\ dash.mode = "graph"
    /\ dash.pc = "normal"
    /\ dash.ticks < MaxTicks
    /\ IF Blocks(mon, env)
       THEN /\ dash' = [dash EXCEPT !.pc = "blocked"]
            /\ UNCHANGED <<now, mon, obs>>
       ELSE \E sample \in Samples, key \in Keys :
             \E r \in {get_gpu_info(mon, now, env)} :
               \E hist \in {UpdateHistory(dash.hist, Pushed(sample, r.ret))} :
                 \E writes \in {GraphFrameWrites(sample, r.ret, dash.graph_width, hist)} :
                  \E exc \in {FrameExc(scr, writes)} :
                    /\ mon' = [mon EXCEPT !.cache = r.cache]
                    /\ obs' = Call("get_gpu_info", now, env, r.ret, NoExc, r.probes)
                    /\ dash' = GraphTicked(dash, sample, r.ret, hist, exc, key)
                    /\ now' = IF exc = NoExc /\ key = "none" THEN now + 1 ELSE now
    /\ UNCHANGED <<env, first, scr>>

\* The user resizes the terminal while a loop runs; the loops do not measure
\* it again.
Resize ==
    /\ dash.pc \in {"degraded", "normal"}
    /\ scr' \in (IF dash.mode = "graph" THEN GraphTerminals ELSE PlainTerminals) \ {scr}
    /\ UNCHANGED <<env, now, mon, obs, first, dash>>

\* display_monitor up to its loop.
PlainStart ==
    /\ dash.mode = "plain"
    /\ dash.pc = "start"
    /\ \E r \in {SystemMonitor(now, env)} :
          /\ mon' = r.m
          /\ obs' = Call("__init__", now, env, r.ret, r.exc, r.probes)
          /\ first' = [time |-> now, vendor |-> r.ret]
          /\ dash' = PlainStarted(dash, scr, r)
    /\ UNCHANGED <<env, now, scr>>

PlainDegradedKey ==
    /\ dash.mode = "plain"
    /\ dash.pc = "degraded"
    /\ \E key \in Keys :
          dash' = [dash EXCEPT !.key = key,
                               !.pc = IF key = "q" THEN "quit" ELSE "degraded"]
    /\ UNCHANGED <<env, now, mon, obs, first, scr>>

\* One iteration of display_monitor's loop: the screen is cleared, the title
\* written through safe_addstr, the four samples taken; the network sample
\* raises, which ends display_monitor before anything else is drawn.
PlainTick ==
    /\ dash.mode = "plain"
    /\ dash.pc = "normal"
    /\ dash.ticks < MaxTicks
    /\ \E sample \in Samples :
         \E r \in {get_gpu_info(mon, now, env)} :
           \E n \in {get_network_info(mon)} :
              /\ mon' = [mon EXCEPT !.cache = r.cache]
              /\ obs' = Call("get_network_info", now, env, n.ret, n.exc, {})
              /\ dash' = [dash EXCEPT !.ticks = dash.ticks + 1, !.sample = sample,
                                      !.gpu_info = r.ret, !.network_info = n.ret,
                                      !.exc = n.exc,
                                      !.frame = IF n.exc = NoExc THEN "complete"
                                                ELSE "partial",
                                      !.pc = IF n.exc # NoExc THEN "raised" ELSE "normal"]
    /\ UNCHANGED <<env, now, first, scr>>

\* The machines of the recorder's runs.
RecordMachines ==
    {BareMachine, NvidiaGoodMachine, AmdFullMachine, AmdLimitedMachine,
     [NvidiaGoodMachine EXCEPT !.nvidia_query = "nonzero_exit"]}

RecordSamples == {Sample(<<25, 1>>, <<40, 1>>, d) : d \in DiskSources}

\* main() with --record up to the loop: the monitor is built, the columns
\* decided from the first GPU and disk snapshots, the header written.
RecordStart ==
    /\ dash.mode = "record"
    /\ dash.pc = "start"
    /\ \E d \in DiskSources :
         \E r \in {SystemMonitor(now, env)} :
           \E g \in {get_gpu_info(r.m, now, env)} :
              /\ mon' = IF r.exc = NoExc THEN [r.m EXCEPT !.cache = g.cache] ELSE r.m
              /\ obs' = Call("__init__", now, env, r.ret, r.exc, r.probes)
              /\ first' = [time |-> now, vendor |-> r.ret]
              /\ dash' = RecordStarted(dash, r, g.ret, get_disk_io_info(d))
    /\ UNCHANGED <<env, now, scr>>

\* One iteration of the recorder's loop, time.sleep(1) included.
RecordTick ==
    /\ dash.mode = "record"
    /\ dash.pc = "normal"
    /\ dash.ticks < MaxTicks
    /\ \E s \in RecordSamples :
         \E g \in {get_gpu_info(mon, now, env)} :
           \E w \in {RecordRow(dash.rec, s, g.ret)} :
              /\ mon' = IF dash.rec.has_gpu THEN [mon EXCEPT !.cache = g.cache] ELSE mon
              /\ obs' = Call("record", now, env, w.row, w.exc, {})
              /\ dash' = RecordTicked(dash, s, g.ret, w)
              /\ now' = IF w.exc = NoExc THEN now + 1 ELSE now
    /\ UNCHANGED <<env, first, scr>>

\* Ctrl+C: KeyboardInterrupt ends the recording.
RecordInterrupt ==
    /\ dash.mode = "record"
    /\ dash.pc = "normal"
    /\ dash' = [dash EXCEPT !.pc = "quit", !.key = "ctrl-c"]
    /\ UNCHANGED <<env, now, mon, obs, first, scr>>

\* Hardware or tools change while the recorder runs.
RecordReplug ==
    /\ dash.mode = "record"
    /\ dash.pc = "normal"
    /\ env' \in RecordMachines \ {env}
    /\ UNCHANGED <<now, mon, obs, first, scr, dash>>

(***************************************************************************)
(* SpecDetect: the monitor is constructed on every machine.                *)
(***************************************************************************)
InitDetect ==
    /\ env \in DetectMachines(MaxCards, MaxLines)
    /\ now = StartTime
    /\ mon = NoMonitor
    /\ obs = NoCall
    /\ first = NoFirst
    /\ scr = NoScreen
    /\ dash = NoDash

NextDetect == Construct

(***************************************************************************)
(* SpecProbe: vendor detection is called again as time passes and the      *)
(* machine changes.                                                        *)
(***************************************************************************)
InitProbe ==
    /\ env \in ProbeMachines
    /\ now = StartTime
    /\ mon = NoMonitor
    /\ obs = NoCall
    /\ first = NoFirst
    /\ scr = NoScreen
    /\ dash = NoDash

NextProbe ==
    \/ Construct
    \/ DetectGpuType
    \/ Advance
    \/ Replug

(***************************************************************************)
(* SpecAdapter: the monitor is constructed and asked for the GPU snapshot. *)
(***************************************************************************)
InitAdapter ==
    /\ env \in AdapterMachines
    /\ now = StartTime
    /\ mon = NoMonitor
    /\ obs = NoCall
    /\ first = NoFirst
    /\ scr = NoScreen
    /\ dash = NoDash

NextAdapter ==
    \/ Construct
    \/ GetGpuInfo

(***************************************************************************)
(* SpecRender: the renderer's functions are called on small terminals.     *)
(***************************************************************************)
InitRender ==
    /\ env = BareMachine
    /\ now = StartTime
    /\ mon = NoMonitor
    /\ obs = NoCall
    /\ first = NoFirst
    /\ scr \in Terminals
    /\ dash = NoDash

NextRender ==
    \/ DrawGraph
    \/ SafeAddstr
    \/ Clear

(***************************************************************************)
(* SpecGraph: the graph dashboard runs for a few ticks.                    *)
(***************************************************************************)
InitGraph ==
    /\ env \in GraphMachines
    /\ now = StartTime
    /\ mon = NoMonitor
    /\ obs = NoCall
    /\ first = NoFirst
    /\ scr \in GraphTerminals
    /\ dash = [NoDash EXCEPT !.mode = "graph", !.pc = "start"]

NextGraph ==
    \/ GraphStart
    \/ GraphDegradedKey
    \/ GraphTick
    \/ Resize

(***************************************************************************)
(* SpecPlain: the plain dashboard.                                         *)
(***************************************************************************)
InitPlain ==
    /\ env \in PlainMachines
    /\ now = StartTime
    /\ mon = NoMonitor
    /\ obs = NoCall
    /\ first = NoFirst
    /\ scr \in PlainTerminals
    /\ dash = [NoDash EXCEPT !.mode = "plain", !.pc = "start"]

NextPlain ==
    \/ PlainStart
    \/ PlainDegradedKey
    \/ PlainTick
    \/ Resize

(***************************************************************************)
(* SpecRecord: the recorder runs for a few ticks.                          *)
(***************************************************************************)
InitRecord ==
    /\ env \in RecordMachines
    /\ now = StartTime
    /\ mon = NoMonitor
    /\ obs = NoCall
    /\ first = NoFirst
    /\ scr = NoScreen
    /\ dash = [NoDash EXCEPT !.mode = "record", !.pc = "start"]

NextRecord ==
    \/ RecordStart
    \/ RecordTick
    \/ RecordInterrupt
    \/ RecordReplug

(***************************************************************************)
(* SpecSysfs: the monitor is constructed on every sysfs tree, with each    *)
(* behaviour of the NVIDIA tool and lspci absent or answering.             *)
(***************************************************************************)
SysfsMachines ==
    {[BareMachine EXCEPT !.nvidia_tool = n, !.cards = c,
                         !.lspci_tool = l[1], !.lspci_out = l[2]] :
        n \in ExecKinds,
        c \in SeqUpTo({Card(v, "absent", "absent") : v \in VendorFiles}, MaxCards),
        l \in {<<"not_found", <<>>>>, <<"ok", <<AmdVgaLine>>>>}}

InitSysfs ==
    /\ env \in SysfsMachines
    /\ now = StartTime
    /\ mon = NoMonitor
    /\ obs = NoCall
    /\ first = NoFirst
    /\ scr = NoScreen
    /\ dash = NoDash

NextSysfs == Construct

(***************************************************************************)
(* SpecCache: the vendor detection and the GPU snapshot are called again   *)
(* and again as time passes and the machine changes.                       *)
(***************************************************************************)
InitCache ==
    /\ env \in ProbeMachines \cup {AmdFullMachine}
    /\ now = StartTime
    /\ mon = NoMonitor
    /\ obs = NoCall
    /\ first = NoFirst
    /\ scr = NoScreen
    /\ dash = NoDash

NextCache ==
    \/ Construct
    \/ DetectGpuType
    \/ GetGpuInfo
    \/ Advance
    \/ Replug

(***************************************************************************)
(* SpecStall: the graph dashboard on machines whose tools may hang.  A     *)
(* loop that is inside a call that never returns has no step left to take. *)
(***************************************************************************)
InitStall ==
    /\ env \in StallMachines
    /\ now = StartTime
    /\ mon = NoMonitor
    /\ obs = NoCall
    /\ first = NoFirst
    /\ scr \in GraphTerminals
    /\ dash = [NoDash EXCEPT !.mode = "graph", !.pc = "start"]

NextStall ==
    \/ GraphStart
    \/ GraphDegradedKey
    \/ GraphTick

(***************************************************************************)
(* SpecLayout: the graph dashboard with every combination of GPU fields.   *)
(***************************************************************************)
InitLayout ==
    /\ env \in LayoutMachines
    /\ now = StartTime
    /\ mon = NoMonitor
    /\ obs = NoCall
    /\ first = NoFirst
    /\ scr \in LayoutTerminals
    /\ dash = [NoDash EXCEPT !.mode = "graph", !.pc = "start"]

NextLayout ==
    \/ GraphStart
    \/ GraphTick

(***************************************************************************)
(* SpecPlot: one iteration of the plot loop on every input.                *)
(***************************************************************************)
InitPlot ==
    /\ env = BareMachine
    /\ now = StartTime
    /\ mon = NoMonitor
    /\ obs = NoCall
    /\ first = NoFirst
    /\ scr = NoScreen
    /\ dash = NoDash

NextPlot == PlotStep

(***************************************************************************)
(* SpecDash: either dashboard.                                             *)
(***************************************************************************)
InitDash == InitGraph \/ InitPlain

NextDash ==
    \/ GraphStart
    \/ GraphDegradedKey
    \/ GraphTick
    \/ PlainStart
    \/ PlainDegradedKey
    \/ PlainTick
    \/ Resize

vars == <<env, now, mon, obs, first, scr, dash>>

SpecDetect == InitDetect /\ [][NextDetect]_vars
SpecProbe == InitProbe /\ [][NextProbe]_vars
SpecAdapter == InitAdapter /\ [][NextAdapter]_vars
SpecRender == InitRender /\ [][NextRender]_vars
SpecGraph == InitGraph /\ [][NextGraph]_vars
SpecPlain == InitPlain /\ [][NextPlain]_vars
SpecDash == InitDash /\ [][NextDash]_vars
SpecRecord == InitRecord /\ [][NextRecord]_vars
SpecSysfs == InitSysfs /\ [][NextSysfs]_vars
SpecPlot == InitPlot /\ [][NextPlot]_vars
SpecCache == InitCache /\ [][NextCache]_vars
SpecLayout == InitLayout /\ [][NextLayout]_vars
SpecStall == InitStall /\ [][NextStall]_vars

(***************************************************************************)
(* Claims about the capability prober.                                     *)
(***************************************************************************)

\* C3: a _detect_gpu_type call made less than the ttl (60 s) after the
\* monitor's first one invokes no external tool and no filesystem probe and
\* returns the vendor the first call returned.
C3_CacheHit ==
    (obs.op = "_detect_gpu_type" /\ obs.t - first.time < _gpu_detection_cache_ttl)
        => (obs.probes = {} /\ obs.exc = NoExc /\ obs.ret = first.vendor)

\* A call 59 s after the first, on a machine where a fresh detection would
\* by now find another vendor.
C3_Witness ==
    /\ obs.op = "_detect_gpu_type"
    /\ obs.t - first.time = 59
    /\ obs.probes = {}
    /\ _perform_gpu_detection(mon, obs.t, obs.machine).ret \notin {obs.ret, None}

\* A vendor file that reads 0x1002 exists in some device directory.
SysfsHasAmd(e) ==
    \E i \in 1..Len(e.cards) : Strip(e.cards[i].vendor) = "0x1002"

\* C4: detection tries the NVIDIA CLI, then the sysfs vendor files, then the
\* lspci text, and stops at the first success: nvidia if the CLI ran, else
\* amd (without running lspci) if a vendor file reads 0x1002, else amd if the
\* lspci text matches, else none.
C4_FallbackChain ==
    obs.op = "__init__" =>
        /\ obs.ret = IF obs.machine.nvidia_tool = "ok" THEN "nvidia"
                     ELSE IF SysfsHasAmd(obs.machine) THEN "amd"
                     ELSE IF obs.machine.lspci_tool = "ok" /\ LspciMatchesAmd(obs.machine.lspci_out)
                          THEN "amd"
                     ELSE "none"
        /\ (obs.machine.nvidia_tool # "ok" /\ SysfsHasAmd(obs.machine)) => "lspci" \notin obs.probes

\* C5: whatever way a detection source fails (tool not found, permission
\* denied, non-zero exit, malformed output), detection raises nothing and
\* returns nvidia, amd or none.
C5_DetectionNeverRaises ==
    obs.op = "__init__" =>
        /\ obs.exc = NoExc
        /\ obs.ret \in {"nvidia", "amd", "none"}

(***************************************************************************)
(* Claims about the vendor adapters.                                       *)
(***************************************************************************)
AmdOptionalKeys ==
    {"temperature", "gpu_utilization", "memory_used", "memory_total",
     "memory_utilization"}

NvidiaCall == obs.op = "get_gpu_info" /\ mon.gpu_type = "nvidia"
AmdCall == obs.op = "get_gpu_info" /\ mon.gpu_type = "amd"

\* The key of the snapshot that holds the i-th value of the CLI's output.
NvidiaKeyAt(i) ==
    CASE i = 2 -> "temperature"
      [] i = 3 -> "gpu_utilization"
      [] i = 4 -> "memory_utilization"
      [] i = 5 -> "memory_used"
      [] i = 6 -> "memory_total"
      [] i = 7 -> "power_draw"

\* C6: for every output or failure of the management CLI the NVIDIA adapter
\* returns either a result carrying only a status, or a snapshot whose seven
\* fields are all taken positionally from the seven comma-separated values
\* (name, temperature, GPU utilisation, memory utilisation, memory used,
\* memory total, power draw); never a snapshot with only some fields taken
\* from the output.
C6_NvidiaAtomic ==
    NvidiaCall =>
        \/ DOMAIN obs.ret = {"status"}
        \/ /\ DOMAIN obs.ret = NvidiaKeys
           /\ Len(obs.machine.nvidia_out) = 7
           /\ obs.ret.type = "NVIDIA"
           /\ obs.ret.name = Strip(obs.machine.nvidia_out[1])
           /\ \A i \in 2..7 :
                 /\ IsFloat(Strip(obs.machine.nvidia_out[i]))
                 /\ obs.ret[NvidiaKeyAt(i)] = FloatOf(Strip(obs.machine.nvidia_out[i]))

\* The sources of the AMD adapter's steps that are in order on machine e.
AmdTempGood(m, e) == HasAmdTemp(AmdTempFile(m, e))

AmdMemoryGood(e) ==
    /\ e.rocm_tool = "ok"
    /\ e.rocm_out.total \notin {"absent", "0"}
    /\ e.rocm_out.used \notin {"absent", "0"}

AmdUtilGood(m, e) ==
    HasAmdUtil(_perform_gpu_busy_path_detection(m, e),
               BusyOf(e, BusyIndex(_perform_gpu_busy_path_detection(m, e))))

\* C7: the name, temperature, memory and utilisation steps of the AMD adapter
\* are independently best-effort: however the source of one step fails, the
\* snapshot is not replaced by an error-only result (it carries vendor and
\* name) and holds the fields of every step whose own source is in order.
C7_AmdFieldIndependence ==
    AmdCall =>
        /\ {"type", "name"} \subseteq DOMAIN obs.ret
        /\ AmdTempGood(mon, obs.machine) => "temperature" \in DOMAIN obs.ret
        /\ AmdMemoryGood(obs.machine) =>
              {"memory_used", "memory_total", "memory_utilization"} \subseteq DOMAIN obs.ret
        /\ AmdUtilGood(mon, obs.machine) => "gpu_utilization" \in DOMAIN obs.ret

\* C8: the AMD adapter sets memory_used, memory_total and memory_utilization
\* only when both the total and the used byte counts are there and strictly
\* positive, and then sets all three, the utilisation being used/total*100;
\* for a zero or missing count all three are absent from the snapshot.
C8_AmdMemoryGuard ==
    AmdCall =>
        /\ (DOMAIN obs.ret \cap {"memory_used", "memory_total", "memory_utilization"} # {})
              => /\ {"memory_used", "memory_total", "memory_utilization"} \subseteq DOMAIN obs.ret
                 /\ obs.machine.rocm_tool = "ok"
                 /\ obs.machine.rocm_out.total # "absent"
                 /\ obs.machine.rocm_out.used # "absent"
                 /\ IntOf(obs.machine.rocm_out.total) > 0
                 /\ IntOf(obs.machine.rocm_out.used) > 0
                 /\ obs.ret.memory_total = Rat(IntOf(obs.machine.rocm_out.total), MiB)
                 /\ obs.ret.memory_used = Rat(IntOf(obs.machine.rocm_out.used), MiB)
                 /\ obs.ret.memory_utilization =
                       Rat(100 * IntOf(obs.machine.rocm_out.used),
                           IntOf(obs.machine.rocm_out.total))
        /\ (obs.machine.rocm_out.total \in {"absent", "0"}
              \/ obs.machine.rocm_out.used \in {"absent", "0"})
              => DOMAIN obs.ret \cap {"memory_used", "memory_total", "memory_utilization"} = {}

\* Scenario C: the memory CLI runs and reports a total of 0 bytes next to a
\* positive used count; the snapshot has its other fields and no memory field.
C8_Witness ==
    /\ AmdCall
    /\ obs.machine.rocm_tool = "ok"
    /\ obs.machine.rocm_out.total = "0"
    /\ obs.machine.rocm_out.used = "1048576"
    /\ {"type", "name", "temperature", "gpu_utilization"} = DOMAIN obs.ret

\* C9: when the AMD adapter populated only vendor and name, the snapshot is
\* marked with the limited-info status and still carries vendor and name, and
\* the callers handle the GPU as present: the recorder keeps the GPU columns,
\* the graph dashboard shows the name on its GPU line, the plain dashboard
\* shows type and model.
C9_LimitedInfoInformational ==
    (AmdCall /\ {"type", "name"} \subseteq DOMAIN obs.ret
             /\ DOMAIN obs.ret \cap AmdOptionalKeys = {}) =>
        /\ obs.ret.status = "Limited AMD GPU info available"
        /\ obs.ret.type = "AMD"
        /\ has_gpu(obs.ret)
        /\ GpuColumns(obs.ret) = <<"gpu_util", "gpu_mem_util", "gpu_temp">>
        /\ GraphGpuLine(obs.ret) = <<"GPU: ", obs.ret.name>>
        /\ PlainGpuPanel(obs.ret) = <<<<"Type: ", "AMD">>, <<"Model: ", obs.ret.name>>>>

(***************************************************************************)
(* Claims about the renderer.                                              *)
(***************************************************************************)
\* The screen after the writes, each made through safe_addstr.
RECURSIVE RunSafeWrites(_, _, _)
RunSafeWrites(s, writes, i) ==
    IF i > Len(writes) THEN s
    ELSE RunSafeWrites(safe_addstr(s, writes[i].y, writes[i].x, writes[i].text).scr,
                       writes, i + 1)

\* C1: for every origin, width, height, series and terminal size, draw_graph
\* does not raise, and the writes whose target lies outside the terminal are
\* dropped: the terminal holds what the writes inside it put there.
C1_OutOfBoundsDropped ==
    obs.op = "draw_graph" =>
        /\ obs.exc = NoExc
        /\ scr.cells =
              RunSafeWrites(Screen(scr.max_y, scr.max_x),
                            DrawGraphWrites(obs.machine.y_start, obs.machine.x_start,
                                            obs.machine.width, obs.machine.height,
                                            obs.machine.data, obs.machine.title,
                                            obs.machine.y_max), 1).cells

(***************************************************************************)
(* Claims about the dashboards.                                            *)
(***************************************************************************)

\* C2: after any number n >= 0 of ticks of the graph dashboard, each of the
\* five histories (CPU average, memory %, GPU utilisation %, GPU memory %,
\* disk usage %) has exactly 120 values, and the value pushed by the most
\* recent tick is its first (index 0 of the newest-first deque).
C2_HistoryLength ==
    (dash.mode = "graph" /\ dash.pc \in {"normal", "quit", "raised"} /\ dash.hist # NoHist) =>
        \A n \in HistoryNames :
            /\ Len(dash.hist[n]) = 120
            /\ dash.ticks > 0 => dash.hist[n][1] = Pushed(dash.sample, dash.gpu_info)[n]

\* Two ticks on the machine with the full AMD snapshot: the newest CPU value
\* is first, the one before it second, the zeros of the start follow.
C2_Witness ==
    /\ dash.mode = "graph"
    /\ dash.pc = "normal"
    /\ dash.ticks = 2
    /\ Len(dash.hist.cpu) = 120
    /\ dash.hist.cpu[1] = <<75, 1>>
    /\ dash.hist.cpu[2] = <<25, 1>>
    /\ dash.hist.cpu[3] = <<0, 1>>
    /\ dash.hist.gpu_util[1] = <<37, 1>>
    /\ dash.hist.gpu_memory[1] = <<50, 1>>
    /\ dash.hist.disk[1] = <<55, 1>>

\* C10: the first network sample taken after the monitor is constructed
\* reports 0 for the total sent and received rates and for every interface's
\* rates, whatever the raw counters are.
C10_FirstNetworkSampleZero ==
    (dash.mode = "plain" /\ dash.ticks = 1) =>
        /\ dash.exc = NoExc
        /\ dash.network_info # None
        /\ dash.network_info.total_bytes_sent_per_sec = <<0, 1>>
        /\ dash.network_info.total_bytes_recv_per_sec = <<0, 1>>
        /\ \A i \in DOMAIN dash.network_info.interfaces :
              /\ dash.network_info.interfaces[i].bytes_sent_per_sec = <<0, 1>>
              /\ dash.network_info.interfaces[i].bytes_recv_per_sec = <<0, 1>>

\* C11: in every tick, a failure of the disk source or of the network source
\* becomes that source's status/error variant with a reason, and the CPU, GPU
\* and memory values of the same tick are still produced and rendered: the
\* tick raises nothing and its frame is drawn completely.
C11_FaultIsolation ==
    (dash.mode = "plain" /\ dash.ticks > 0) =>
        /\ dash.exc = NoExc
        /\ dash.frame = "complete"
        /\ \/ "status" \in DOMAIN dash.sample.disk_info
           \/ "usage" \in DOMAIN dash.sample.disk_info
        /\ dash.network_info # None

\* The terminal measured at start-up was smaller than the mode's minimum.
SmallAtStart ==
    IF dash.mode = "graph"
    THEN dash.start.max_y < 35 \/ dash.start.max_x < 100
    ELSE dash.start.max_y < 25 \/ dash.start.max_x < 80

\* A step out of the Degraded state: nothing is sampled, no history updated,
\* nothing redrawn, and the state is left only for the quit key.
DegradedStep ==
    dash.pc = "degraded" =>
        /\ dash'.pc \in {"degraded", "quit"}
        /\ dash'.pc = "quit" <=> dash'.key = "q"
        /\ dash'.ticks = 0
        /\ dash'.sample = None
        /\ dash'.gpu_info = None
        /\ dash'.hist = NoHist
        /\ dash'.frame = "none"
        /\ mon' = mon
        /\ obs' = obs

\* C12: the loop is in Degraded if and only if the terminal measured at
\* start-up had fewer rows or columns than the minimum (35x100 in graph mode,
\* 25x80 in plain mode); Degraded never becomes Normal, samples nothing,
\* updates no history, redraws nothing and is left only when q is read; Normal
\* never becomes Degraded.
C12_StateMachine ==
    /\ [](dash.pc = "degraded" => SmallAtStart)
    /\ [](dash.pc = "normal" => ~SmallAtStart)
    /\ [][DegradedStep]_vars
    /\ [][dash.pc = "normal" => dash'.pc # "degraded"]_vars

\* The terminal was too small at start-up, has been enlarged since, a key
\* other than q was read, and the loop is still Degraded.
C12_Witness ==
    /\ dash.pc = "degraded"
    /\ dash.key = "x"
    /\ SmallAtStart
    /\ scr.max_y >= 35
    /\ scr.max_x >= 100

\* C13: in every mode a failure of a GPU, disk or network source during a
\* tick never ends the run: after any tick the loop is still running, or was
\* ended by the user's quit.
C13_SourceFailureNeverEndsRun ==
    dash.ticks > 0 =>
        /\ dash.pc \in {"normal", "quit"}
        /\ dash.exc = NoExc
        /\ dash.pc = "quit" => dash.key \in {"q", "ctrl-c"}

\* The last row of the recording.
LastRow == dash.rec.rows[Len(dash.rec.rows)]

\* C14: whenever a source fails or a field is absent in a tick, no number is
\* put in its place: a GPU field that the tick's snapshot does not have is
\* not recorded as 0 in the tick's row.
C14_NoFabricatedValues ==
    (dash.mode = "record" /\ dash.pc = "normal" /\ dash.ticks > 0 /\ dash.rec.has_gpu) =>
        /\ "gpu_utilization" \notin DOMAIN dash.gpu_info => LastRow[6] # <<0, 1>>
        /\ "memory_utilization" \notin DOMAIN dash.gpu_info => LastRow[7] # <<0, 1>>
        /\ "temperature" \notin DOMAIN dash.gpu_info => LastRow[8] # <<0, 1>>

\* C15: the columns are decided once at the start of the run, and every
\* later tick, whatever the sources return in it, writes exactly one row with
\* as many columns as the header.
C15_RecordedShape ==
    dash.mode = "record" =>
        /\ Len(dash.rec.rows) = dash.ticks
        /\ \A i \in 1..Len(dash.rec.rows) : Len(dash.rec.rows[i]) = Len(dash.rec.header)

\* C16: in Normal and in Degraded state the loop ends if and only if the key
\* read at the wait step is q; a timeout or any other key starts the next
\* iteration, and nothing else ends the loop.
C16_QuitOnly ==
    [][dash.pc \in {"normal", "degraded"} =>
          /\ dash'.pc \in {"normal", "degraded", "quit"}
          /\ dash'.pc = "quit" <=> dash'.key = "q"]_<<dash.pc, dash.key, dash.ticks>>

\* The device directories whose vendor file reads 0x1002.
AmdCards(e) == {i \in 1..Len(e.cards) : Strip(e.cards[i].vendor) = "0x1002"}

\* C17: when the NVIDIA tool is absent and a device directory's vendor file
\* reads 0x1002, the constructor's detection returns amd and the resolved
\* device path is that directory (the first such in scan order); and a
\* resolved path that is not None is always a directory whose vendor file
\* reads 0x1002.
C17_ScenarioA ==
    obs.op = "__init__" =>
        /\ (obs.machine.nvidia_tool = "not_found" /\ AmdCards(obs.machine) # {}) =>
              /\ obs.exc = NoExc
              /\ obs.ret = "amd"
              /\ mon.gpu_type = "amd"
              /\ \E i \in AmdCards(obs.machine) :
                    /\ mon._amd_gpu_device_path = CardPath(i)
                    /\ \A j \in AmdCards(obs.machine) : i <= j
        /\ mon._amd_gpu_device_path # None =>
              \E i \in AmdCards(obs.machine) : mon._amd_gpu_device_path = CardPath(i)

\* The NVIDIA tool is absent, card0 is an NVIDIA device, card1 reads 0x1002:
\* the monitor holds card1's directory.
C17_Witness ==
    /\ obs.op = "__init__"
    /\ obs.machine.nvidia_tool = "not_found"
    /\ Len(obs.machine.cards) = 2
    /\ obs.machine.cards[1].vendor = "0x10de\n"
    /\ obs.machine.cards[2].vendor = "0x1002\n"
    /\ obs.ret = "amd"
    /\ mon._amd_gpu_device_path = CardPath(2)

\* The plot of the CPU graph in the frame of the last tick.
CpuPlot == PlotPart(4, 5, dash.graph_width, 8, dash.hist.cpu, 100)

\* C18: draw_graph plots the most recent min(width, length - 1) samples of a
\* newest-first history with the newest at the right edge: the point i
\* columns from the right edge of the plot area is at the row of the i-th most
\* recent sample, so the sample pushed in a tick is drawn in that tick's frame.
C18_NewestAtRightEdge ==
    (dash.mode = "graph" /\ dash.ticks > 0) =>
        \A i \in 0..(Min(dash.graph_width, Len(dash.hist.cpu) - 1) - 1) :
            \E k \in 1..Len(CpuPlot) :
                /\ CpuPlot[k].x = 5 + dash.graph_width - i
                /\ CpuPlot[k].y = 4 + 1 + PlotRow(dash.hist.cpu[i + 1], 8, 100)

\* round(r): to the nearest integer, a tie to the even one.
RatRound(r) ==
    IF 2 * (r[1] - (r[1] \div r[2]) * r[2]) < r[2] THEN r[1] \div r[2]
    ELSE IF 2 * (r[1] - (r[1] \div r[2]) * r[2]) > r[2] THEN (r[1] \div r[2]) + 1
    ELSE IF (r[1] \div r[2]) % 2 = 0 THEN r[1] \div r[2]
    ELSE (r[1] \div r[2]) + 1

\* height - round((value / y_max) * height), clamped to [0, height - 1].
RoundedRow(v, height, y_max) ==
    Max(0, Min(height - 1,
               height - RatRound(RatMul(RatDiv(v, RatInt(y_max)), RatInt(height)))))

\* C19: for every value, height and y_max > 0 the screen row of a data point
\* is height - round((value / y_max) * height) clamped to [0, height - 1]; in
\* particular values below 0 or above y_max map to a row in [0, height - 1].
C19_RowMapping ==
    obs.op = "plot" =>
        /\ obs.ret.y1 = RoundedRow(obs.machine.older, obs.machine.height, obs.machine.y_max)
        /\ obs.ret.y2 = RoundedRow(obs.machine.newer, obs.machine.height, obs.machine.y_max)
        /\ obs.ret.y1 \in 0..(obs.machine.height - 1)
        /\ obs.ret.y2 \in 0..(obs.machine.height - 1)

\* C20: between two consecutive plotted points the glyph is chosen from their
\* rows: equal rows give the horizontal glyph (U+2500), a strictly increasing
\* row (value falling) the down-diagonal glyph (U+2572, upper left to lower
\* right), a strictly decreasing row (value rising) the up-diagonal glyph
\* (U+2571, lower left to upper right); coinciding columns give a vertical run
\* over the row range.
C20_GlyphSelection ==
    obs.op = "plot" =>
        obs.ret.writes =
            <<Write(4 + 1 + obs.ret.y1, 5 + 1 + obs.machine.i,
                    <<IF obs.ret.y1 = obs.ret.y2 THEN "u2500"
                      ELSE IF obs.ret.y1 < obs.ret.y2 THEN "u2572"
                      ELSE "u2571">>)>>

(***************************************************************************)
(* Claims about the probe cache.                                           *)
(***************************************************************************)

\* A step that makes a call on the monitor: the clock and the machine stand
\* still and the call recorded after it was made now.
CallStep(ops) == now' = now /\ env' = env /\ obs'.t = now /\ obs'.op \in ops

\* The subscript of the cache properties: what a call changes.
callVars == <<obs.op, obs.t, obs.probes, obs.exc, mon.cache_time, mon.constructed>>

\* The call before this one resolved the vendor: its time is resolvedAt.
VendorResolved ==
    /\ obs.op \in {"__init__", "_detect_gpu_type"}
    /\ "nvidia-smi" \in obs.probes
    /\ obs.exc = NoExc

\* The vendor lookup, called by __init__ and by _detect_gpu_type.
VendorLookup ==
    CallStep({"__init__", "_detect_gpu_type"}) =>
        /\ "gpu_type" \notin DOMAIN mon.cache => "nvidia-smi" \in obs'.probes
        /\ (VendorResolved /\ now - obs.t >= 60) => "nvidia-smi" \in obs'.probes
        /\ (VendorResolved /\ now - obs.t < 60) =>
              (obs'.probes = {} /\ obs'.ret = mon.cache["gpu_type"])

\* The device path lookup, called by the vendor detection once the NVIDIA
\* tool has failed with an exception its try block catches.
DevicePathLookup ==
    (/\ CallStep({"_detect_gpu_type"})
     /\ "nvidia-smi" \in obs'.probes
     /\ Caught(ToolExc(env.nvidia_tool), {"SubprocessError", "FileNotFoundError"})) =>
        /\ "amd_gpu_path" \notin DOMAIN mon.cache => "sysfs" \in obs'.probes
        /\ ("sysfs" \in obs.probes /\ now - obs.t >= 60) => "sysfs" \in obs'.probes
        /\ ("sysfs" \in obs.probes /\ now - obs.t < 60) => "sysfs" \notin obs'.probes

\* The call before this one resolved the GPU-busy path.
BusyResolved == obs.op = "get_gpu_info" /\ "sysfs_busy" \in obs.probes

\* The GPU-busy path lookup, called by every snapshot of an AMD monitor.
BusyPathLookup ==
    (CallStep({"get_gpu_info"}) /\ mon.gpu_type = "amd") =>
        /\ "gpu_busy_path" \notin DOMAIN mon.cache => "sysfs_busy" \in obs'.probes
        /\ (BusyResolved /\ now - obs.t >= 60) => "sysfs_busy" \in obs'.probes
        /\ (BusyResolved /\ now - obs.t < 60) =>
              /\ "sysfs_busy" \notin obs'.probes
              /\ mon'.cache["gpu_busy_path"] = mon.cache["gpu_busy_path"]

\* C21: for each cached lookup (vendor, AMD device path, GPU-busy path) a
\* call made when the cache holds no entry for it, or 60 s or more after the
\* entry was resolved, performs a full probe; a call made less than 60 s
\* after the entry was resolved performs no probe and returns the cached
\* value.  Stated for every call that follows the call that resolved the
\* entry, whose time is then resolvedAt.
C21_CacheValidity ==
    [][VendorLookup /\ DevicePathLookup /\ BusyPathLookup]_callVars

\* The entries a call has just resolved carry that call's time.
ProbeTimeStored ==
    (/\ obs.op \in {"__init__", "_detect_gpu_type", "get_gpu_info"}
     /\ obs.exc = NoExc
     /\ obs.probes \cap {"nvidia-smi", "sysfs", "sysfs_busy"} # {}) =>
        mon.cache_time = obs.t

\* Of two snapshots in a row less than 60 s apart at most one probes for the
\* GPU-busy path.
OneProbePerWindow ==
    (/\ CallStep({"get_gpu_info"})
     /\ BusyResolved
     /\ now - obs.t < 60) => "sysfs_busy" \notin obs'.probes

\* C22: every probe result is stored together with the time of that probe, so
\* the call that follows a re-probe within 60 s is a cache hit, and over a run
\* of snapshots taken tick after tick at most one probe for the GPU-busy path
\* happens in a 60-second window.
C22_CacheRefresh ==
    /\ []ProbeTimeStored
    /\ [][OneProbePerWindow]_callVars

(***************************************************************************)
(* Claims about the graph dashboard's loop and layout.                     *)
(***************************************************************************)

\* A step that runs one Normal tick of the graph dashboard: every history
\* takes the value of the tick's sample once, the whole frame is drawn from
\* the updated histories, and the wait for a key is reached.
NormalTick ==
    (dash.mode = "graph" /\ dash'.ticks = dash.ticks + 1) =>
        /\ dash.pc = "normal"
        /\ dash'.hist = UpdateHistory(dash.hist, Pushed(dash'.sample, dash'.gpu_info))
        /\ \E writes \in {GraphFrameWrites(dash'.sample, dash'.gpu_info,
                                            dash.graph_width, dash'.hist)} :
              dash'.exc = FrameExc(scr, writes)
        /\ dash'.frame = "complete"
        /\ dash'.key \in Keys

\* Outside a tick no history changes.
BetweenTicks ==
    (dash.mode = "graph" /\ dash.pc = "normal" /\ dash'.ticks = dash.ticks) =>
        dash'.hist = dash.hist

\* C23: in every Normal tick of the graph dashboard the steps sample, update
\* of every history, full-screen redraw and wait for a key happen exactly once
\* each and in that order: the redraw of a tick reads histories that contain
\* the tick's sample, and no history changes between the redraw and the next
\* tick's sample.
C23_TickOrdering ==
    [][NormalTick /\ BetweenTicks]_<<dash.ticks, dash.pc, dash.hist, dash.frame>>

\* A tick's push on every series: the tick's value goes to index 0, every
\* earlier value moves one position older, the length stays 120.
HistoryShift ==
    (dash.mode = "graph" /\ dash'.ticks = dash.ticks + 1) =>
        \A n \in HistoryNames :
            /\ Len(dash'.hist[n]) = 120
            /\ dash'.hist[n][1] = Pushed(dash'.sample, dash'.gpu_info)[n]
            /\ \A k \in 2..120 : dash'.hist[n][k] = dash.hist[n][k - 1]

\* The positions no tick has reached yet hold the zeros of the start.
ZerosRemain ==
    (dash.mode = "graph" /\ dash.hist # NoHist) =>
        \A n \in HistoryNames :
            \A k \in (dash.ticks + 1)..120 : dash.hist[n][k] = <<0, 1>>

\* C24: each Normal tick pushes exactly one value onto every one of the five
\* series, whether or not its source was available; a push moves every
\* earlier value one position older and discards only the oldest, so after n
\* ticks index k < min(n, 120) holds the value pushed at tick n - k and the
\* other positions hold the zeros the series were filled with.
C24_HistoryShift == []ZerosRemain /\ [][HistoryShift]_<<dash.ticks, dash.hist>>

\* Two ticks on the machine without a GPU: the disk usage 55 of the first
\* tick has moved to index 1 behind the 0 pushed for the second tick's
\* missing disk source, and the GPU series took a 0 in both ticks.
C24_Witness ==
    /\ dash.mode = "graph"
    /\ dash.ticks = 2
    /\ "status" \in DOMAIN dash.gpu_info
    /\ "status" \in DOMAIN dash.sample.disk_info
    /\ dash.hist.cpu[1] = <<25, 1>>
    /\ dash.hist.cpu[2] = <<75, 1>>
    /\ dash.hist.disk[1] = <<0, 1>>
    /\ dash.hist.disk[2] = <<55, 1>>
    /\ dash.hist.disk[3] = <<0, 1>>
    /\ dash.hist.gpu_util[2] = <<0, 1>>
    /\ dash.hist.cpu[120] = <<0, 1>>

(***************************************************************************)
(* Claims about the detection's last step and the AMD temperature.         *)
(***************************************************************************)

\* Some line of the lspci output names AMD and a display class.
LspciLineMatchesAmd(lines) ==
    \E i \in 1..Len(lines) :
        "amd" \in lines[i].kw /\ lines[i].kw \cap {"vga", "display"} # {}

\* C25: when detection reaches lspci and the tool runs, the vendor is amd
\* only if a single line of its output contains both the AMD vendor name and
\* a display-class keyword; an output in which the name and the keyword occur
\* only on different lines yields none.
C25_PciFallbackPerLine ==
    (/\ obs.op = "__init__"
     /\ obs.exc = NoExc
     /\ "lspci" \in obs.probes
     /\ obs.machine.lspci_tool = "ok") =>
        obs.ret = IF LspciLineMatchesAmd(obs.machine.lspci_out) THEN "amd" ELSE "none"

\* The file the temperature is to be read from: temp1_input under the
\* device path when it is there and can be read, else the first match of the
\* global glob.
TemperatureSource(m, e) ==
    IF /\ m._amd_gpu_device_path # None
       /\ TempOf(e, CardIndex(m._amd_gpu_device_path)) \notin {"absent", "unreadable"}
    THEN TempOf(e, CardIndex(m._amd_gpu_device_path))
    ELSE e.hwmon_global

\* C26: the AMD temperature is read from temp1_input under the resolved
\* device path when one exists there, and otherwise from the global
\* hardware-monitor glob, also when no device path was resolved or the file
\* under the device path cannot be read; the value is the millidegree integer
\* divided by 1000.
C26_AmdTemperatureSource ==
    (/\ obs.op = "get_gpu_info"
     /\ mon.gpu_type = "amd"
     /\ "type" \in DOMAIN obs.ret) =>
        IF HasAmdTemp(TemperatureSource(mon, obs.machine))
        THEN /\ "temperature" \in DOMAIN obs.ret
             /\ obs.ret.temperature =
                    Rat(IntOf(Strip(TemperatureSource(mon, obs.machine))), 1000)
        ELSE "temperature" \notin DOMAIN obs.ret

(***************************************************************************)
(* Claims about stalls, safe_addstr and the graph layout.                  *)
(***************************************************************************)

\* C27: every external tool is run with a timeout, so a tool that never
\* returns cannot stall the dashboard for ever and every tick that starts
\* reaches its wait for a key: the loop is never held inside an external
\* call for good, which is the position "blocked" that a tick takes when the
\* tool it runs does not return and that no step leaves.
C27_TickReachesWait == dash.pc # "blocked"

\* The target of the call recorded in obs lies inside the terminal.
TargetInside ==
    /\ obs.machine.y >= 0 /\ obs.machine.y < scr.max_y
    /\ obs.machine.x >= 0 /\ obs.machine.x < scr.max_x

\* C28: for every row y, column x, text and terminal size safe_addstr raises
\* nothing; it writes nothing when (y, x) is outside the terminal, and
\* otherwise puts the first max_x - x characters of the text, at most, on row
\* y from column x on: no character goes beyond the last column, every other
\* cell is left as it was.
C28_SafeAddstr ==
    obs.op = "safe_addstr" =>
        /\ obs.exc = NoExc
        /\ \A p \in DOMAIN scr.cells :
              scr.cells[p] =
                  IF /\ TargetInside
                     /\ p[1] = obs.machine.y
                     /\ p[2] >= obs.machine.x
                     /\ p[2] < obs.machine.x + Len(obs.machine.text)
                  THEN obs.machine.text[p[2] - obs.machine.x + 1]
                  ELSE " "

\* A text of six characters written four columns before the right edge of
\* the bottom row: four characters are kept, the last in the bottom right
\* cell, where addstr raises curses.error after writing.
C28_Witness ==
    /\ obs.op = "safe_addstr"
    /\ obs.exc = NoExc
    /\ Len(obs.machine.text) = 6
    /\ obs.machine.y = scr.max_y - 1
    /\ obs.machine.x = scr.max_x - 4
    /\ scr.cells[<<scr.max_y - 1, scr.max_x - 4>>] = "M"
    /\ scr.cells[<<scr.max_y - 1, scr.max_x - 1>>] = "o"
    /\ AddstrExc(scr, obs.machine.y, obs.machine.x, 4) = "curses.error"

\* C29: in graph mode, when the terminal passed the start-up size check (at
\* least 35 rows and 100 columns) and keeps that size, every write of a Normal
\* tick targets a cell inside the terminal, whatever GPU fields the snapshot
\* has: no tick fails on an out-of-bounds write.
C29_MinimumSizeSufficient ==
    (/\ dash.mode = "graph"
     /\ dash.ticks > 0
     /\ dash.start.max_y >= 35 /\ dash.start.max_x >= 100
     /\ scr.max_y = dash.start.max_y /\ scr.max_x = dash.start.max_x) =>
        /\ dash.exc = NoExc
        /\ dash.frame = "complete"
        /\ \E writes \in {GraphFrameWrites(dash.sample, dash.gpu_info,
                                            dash.graph_width, dash.hist)} :
              \A i \in 1..Len(writes) :
                  /\ writes[i].y >= 0 /\ writes[i].y < scr.max_y
                  /\ writes[i].x >= 0 /\ writes[i].x < scr.max_x

\* The titles of the graphs of the graph dashboard.
GpuGraphTitles ==
    {"GPU Utilization (%) - Last 2 Minutes", "GPU Memory Usage (%) - Last 2 Minutes"}

GraphTitles ==
    GpuGraphTitles \cup {"CPU Usage (%) - Last 2 Minutes", "Memory Usage (%) - Last 2 Minutes",
                         "Disk Usage (%) - Last 2 Minutes"}

\* The writes that start a graph: draw_graph writes the title first.
TitleIndexes(writes) ==
    {i \in 1..Len(writes) : Len(writes[i].text) = 1 /\ writes[i].text[1] \in GraphTitles}

\* The rows of the graph whose title is write i: the rows of the writes up to
\* the next title.
GraphRows(writes, titles, i) ==
    {writes[k].y : k \in {j \in i..Len(writes) : \A t \in titles : t <= i \/ t > j}}

\* The layout of one frame: its graphs are on disjoint rows, the disk graph
\* starts below every GPU graph, and a GPU graph is there only when the
\* snapshot g has its field.
LayoutOf(writes, titles, rows, g) ==
    /\ \A i, j \in titles : i < j => rows[i] \cap rows[j] = {}
    /\ \A i, j \in titles :
          (/\ writes[i].text[1] \in GpuGraphTitles
           /\ writes[j].text[1] = "Disk Usage (%) - Last 2 Minutes") =>
              \A y \in rows[i] : y < writes[j].y
    /\ \A i \in titles :
          /\ writes[i].text[1] = "GPU Utilization (%) - Last 2 Minutes" =>
                "gpu_utilization" \in DOMAIN g
          /\ writes[i].text[1] = "GPU Memory Usage (%) - Last 2 Minutes" =>
                {"memory_used", "memory_total"} \subseteq DOMAIN g
    /\ Cardinality(titles) >= 3

\* C30: in every Normal tick of graph mode the row ranges (title row through
\* bottom border) of the graphs drawn in that tick are pairwise disjoint, for
\* every combination of GPU fields present: the disk graph starts below the
\* last GPU graph that was drawn, and a GPU graph is drawn only when its
\* field is in that tick's snapshot.
C30_GraphLayout ==
    (dash.mode = "graph" /\ dash.ticks > 0) =>
        \E writes \in {GraphFrameWrites(dash.sample, dash.gpu_info,
                                         dash.graph_width, dash.hist)} :
            \E titles \in {TitleIndexes(writes)} :
                \E rows \in {[i \in titles |-> GraphRows(writes, titles, i)]} :
                    LayoutOf(writes, titles, rows, dash.gpu_info)

\* A tick whose snapshot has the memory fields and no utilisation: four
\* graphs, the GPU memory graph right under the memory graph and the disk
\* graph under it.
C30_Witness ==
    /\ dash.mode = "graph"
    /\ dash.ticks > 0
    /\ dash.frame = "complete"
    /\ "memory_used" \in DOMAIN dash.gpu_info
    /\ "gpu_utilization" \notin DOMAIN dash.gpu_info
    /\ \E writes \in {GraphFrameWrites(dash.sample, dash.gpu_info,
                                        dash.graph_width, dash.hist)} :
          /\ Cardinality(TitleIndexes(writes)) = 4
          /\ \E i, j \in TitleIndexes(writes) :
                /\ writes[i] = Write(24, 5, <<"GPU Memory Usage (%) - Last 2 Minutes">>)
                /\ writes[j] = Write(33, 5, <<"Disk Usage (%) - Last 2 Minutes">>)

====
